---------------------------- MODULE Spec2Model ----------------------------
(***************************************************************************)
(* vgpu_unlock-rs: the ioctl interposition hook (src/src/lib.rs), the      *)
(* binary layouts it reinterprets (src/src/nvidia/*.rs), the PCI identity  *)
(* spoof table, the session correlation state LAST_MDEV_UUID and the       *)
(* profile override engine.                                                *)
(*                                                                         *)
(* Text (a Rust String) is a sequence of Unicode scalar values; a byte or  *)
(* u16 array field is a sequence of numbers of the array's length.         *)
(***************************************************************************)
EXTENDS Integers, Sequences, FiniteSets, TLC

(***************************************************************************)
(* Integer helpers.  A u32 that uses its top bit (a command code, a PCI    *)
(* word) and the c_ulong request are pairs <<upper 16 bits, lower 16       *)
(* bits>>; other numbers are plain integers.                               *)
(***************************************************************************)
RECURSIVE Pow2(_)
Pow2(n) == IF n = 0 THEN 1 ELSE 2 * Pow2(n - 1)

RECURSIVE BitOr(_, _)
BitOr(a, b) ==
    IF a = 0 THEN b
    ELSE IF b = 0 THEN a
    ELSE (IF a % 2 = 1 \/ b % 2 = 1 THEN 1 ELSE 0) + 2 * BitOr(a \div 2, b \div 2)

\* (w & 0xffff0000) >> 16
Upper16(w) == w[1]

\* w & 0xffff
Lower16(w) == w[2]

\* low | (v << 16) on u32, for low < 2^16: the shift drops the bits above 32
OrShl16(low, v) == <<v % Pow2(16), low>>

Min(a, b) == IF a < b THEN a ELSE b
Max(a, b) == IF a > b THEN a ELSE b

(***************************************************************************)
(* repr(C) layout: a field is <<size, align>>; each field is placed at the *)
(* next multiple of its alignment and the struct is padded to a multiple   *)
(* of its own alignment (the largest field alignment, or the align(n)      *)
(* attribute when that is larger).                                         *)
(***************************************************************************)
AlignUp(off, a) == ((off + a - 1) \div a) * a

RECURSIVE EndOffset(_, _)
EndOffset(fields, n) ==
    IF n = 0 THEN 0
    ELSE AlignUp(EndOffset(fields, n - 1), fields[n][2]) + fields[n][1]

RECURSIVE MaxAlign(_, _)
MaxAlign(fields, n) ==
    IF n = 0 THEN 1 ELSE Max(MaxAlign(fields, n - 1), fields[n][2])

StructAlign(fields, attr) == Max(MaxAlign(fields, Len(fields)), attr)

size_of(fields, attr) ==
    AlignUp(EndOffset(fields, Len(fields)), StructAlign(fields, attr))

U8 == <<1, 1>>
U16 == <<2, 2>>
U32 == <<4, 4>>
U64 == <<8, 8>>
Ptr == <<8, 8>>
AlignedU64 == <<8, 8>>
Bytes(n) == <<n, 1>>
Words16(n) == <<2 * n, 2>>
Words32(n) == <<4 * n, 4>>

NVA081_VGPU_STRING_BUFFER_SIZE == 32
NVA081_VGPU_SIGNATURE_SIZE == 128
NVA081_EXTRA_PARAMETERS_SIZE == 1024
NV_GRID_LICENSE_INFO_MAX_LENGTH == 128
NV2080_GPU_MAX_NAME_STRING_LENGTH == 64

Nvos54ParametersLayout == <<U32, U32, U32, U32, Ptr, U32, U32>>

UuidLayout == <<U32, U16, U16, Bytes(8)>>
UuidField == <<size_of(UuidLayout, 1), StructAlign(UuidLayout, 1)>>

Nv2080CtrlBusGetPciInfoParamsLayout == <<U32, U32, U32, U32>>

Nv0080CtrlGpuGetVirtualizationModeParamsLayout == <<U32>>

NvA081CtrlCmdVgpuConfigGetMigrationCapParamsLayout == <<U8>>

Nv0000CtrlVgpuGetStartDataParamsLayout ==
    <<UuidField, Bytes(1024), U32, U32, U16, U32>>

Nv0000CtrlVgpuCreateDeviceParamsLayout == <<UuidField, U32, U32, U32, U16>>

NvA081CtrlVgpuInfoLayout ==
    << U32,
       Bytes(NVA081_VGPU_STRING_BUFFER_SIZE),
       Bytes(NVA081_VGPU_STRING_BUFFER_SIZE),
       Bytes(NVA081_VGPU_SIGNATURE_SIZE),
       Bytes(NV_GRID_LICENSE_INFO_MAX_LENGTH),
       U32, U32, U32, U32, U32, U32, U32, U32, U32, U32,
       AlignedU64, AlignedU64, AlignedU64, AlignedU64, AlignedU64,
       AlignedU64, AlignedU64,
       U32,
       AlignedU64,
       U32,
       Bytes(NV2080_GPU_MAX_NAME_STRING_LENGTH),
       Words16(NV2080_GPU_MAX_NAME_STRING_LENGTH),
       Bytes(NV2080_GPU_MAX_NAME_STRING_LENGTH),
       Bytes(NV_GRID_LICENSE_INFO_MAX_LENGTH),
       Words32(NVA081_EXTRA_PARAMETERS_SIZE),
       U32, U32, U32, U32, U32, U32, U32 >>

NvA081CtrlVgpuInfoField ==
    <<size_of(NvA081CtrlVgpuInfoLayout, 8), StructAlign(NvA081CtrlVgpuInfoLayout, 8)>>

NvA081CtrlVgpuConfigGetVgpuTypeInfoParamsLayout == <<U32, NvA081CtrlVgpuInfoField>>

NvA082CtrlCmdHostVgpuDeviceGetVgpuTypeInfoParamsLayout ==
    << U32,
       Bytes(NVA081_VGPU_STRING_BUFFER_SIZE),
       Bytes(NVA081_VGPU_STRING_BUFFER_SIZE),
       Bytes(NVA081_VGPU_SIGNATURE_SIZE),
       Bytes(NV_GRID_LICENSE_INFO_MAX_LENGTH),
       U32, U32, U32, U32, U32, U32, U32, U32, U32, U32,
       U64, U64, U64, U64, U64,
       U32,
       U64,
       U32,
       Bytes(NV2080_GPU_MAX_NAME_STRING_LENGTH),
       Words16(NV2080_GPU_MAX_NAME_STRING_LENGTH),
       Bytes(NV2080_GPU_MAX_NAME_STRING_LENGTH),
       Bytes(NV_GRID_LICENSE_INFO_MAX_LENGTH),
       Bytes(NVA081_EXTRA_PARAMETERS_SIZE),
       Bytes(8) >>

(***************************************************************************)
(* ioctl request numbers (musl's _IOC / _IOWR), as <<upper, lower>>.       *)
(***************************************************************************)
_IOC_WRITE == 1
_IOC_READ == 2

\* a << 30 | b << 8 | c | d << 16
_IOC(a, b, c, d) ==
    << BitOr(BitOr((a * Pow2(14)) % Pow2(16), d % Pow2(16)), (b * Pow2(8)) \div Pow2(16)),
       BitOr((b * Pow2(8)) % Pow2(16), c % Pow2(16)) >>

_IOWR(T, b, c) == _IOC(BitOr(_IOC_READ, _IOC_WRITE), b, c, size_of(T, 1))

\* b'F'
NV_IOCTL_MAGIC == 70

NV_ESC_RM_CONTROL == _IOWR(Nvos54ParametersLayout, NV_IOCTL_MAGIC, \H2a)

(***************************************************************************)
(* RM control command codes (<<upper, lower>>) and status codes.           *)
(***************************************************************************)
NV2080_CTRL_CMD_BUS_GET_PCI_INFO == <<\H2080, \H1801>>
NV0080_CTRL_CMD_GPU_GET_VIRTUALIZATION_MODE == <<\H0080, \H0289>>
NV0080_CTRL_GPU_VIRTUALIZATION_MODE_HOST == 3
NVA081_CTRL_CMD_VGPU_CONFIG_GET_MIGRATION_CAP == <<\Ha081, \H0112>>
NV0000_CTRL_CMD_VGPU_GET_START_DATA == <<\H0000, \H0c01>>
NV0000_CTRL_CMD_VGPU_CREATE_DEVICE == <<\H0000, \H0c02>>
NVA081_CTRL_CMD_VGPU_CONFIG_GET_VGPU_TYPE_INFO == <<\Ha081, \H0103>>
NVA082_CTRL_CMD_HOST_VGPU_DEVICE_GET_VGPU_TYPE_INFO == <<\Ha082, \H0102>>
NV2080_CTRL_CMD_GPU_GET_INFOROM_OBJECT_VERSION == <<\H2080, \H014b>>
NV9096_CTRL_CMD_GET_ZBC_CLEAR_TABLE == <<\H9096, \H0103>>
\* the literal 0xa0820104 of the status clean-up
CMD_A0820104 == <<\Ha082, \H0104>>

NV_OK == 0
NV_ERR_BUSY_RETRY == 3
NV_ERR_NOT_SUPPORTED == 86
NV_ERR_OBJECT_NOT_FOUND == 87

\* the two larger NVA081 type-info sizes of the 17.0 and 18.0 drivers
TYPE_INFO_SIZE_V17 == 5096
TYPE_INFO_SIZE_V18 == 5232

(***************************************************************************)
(* Text formatting: {:0Nx} and {} of the standard formatter.               *)
(***************************************************************************)
\* the ASCII code of one lower-case hex digit
HexChar(d) == IF d < 10 THEN 48 + d ELSE 87 + d

RECURSIVE LowerHexDigits(_)
LowerHexDigits(v) ==
    IF v < 16 THEN <<HexChar(v)>>
    ELSE Append(LowerHexDigits(v \div 16), HexChar(v % 16))

\* {:0Nx}: padded with '0' to at least width characters
LowerHex(v, width) ==
    LET ds == LowerHexDigits(v)
    IN  [k \in 1..Max(0, width - Len(ds)) |-> 48] \o ds

RECURSIVE Decimal(_)
Decimal(v) ==
    IF v < 10 THEN <<48 + v>> ELSE Append(Decimal(v \div 10), 48 + (v % 10))

\* '-'
Hyphen == <<45>>

(***************************************************************************)
(* Uuid(u32, u16, u16, [u8; 8]) and its Display; the u32 is <<upper,       *)
(* lower>>.                                                                *)
(***************************************************************************)
\* Uuid's Display without the hyphens (the "simple" form)
UuidToStringSimple(uuid) ==
    LowerHex(uuid[1][1], 4) \o LowerHex(uuid[1][2], 4)
    \o LowerHex(uuid[2], 4) \o LowerHex(uuid[3], 4)
    \o LowerHex(uuid[4][1], 2) \o LowerHex(uuid[4][2], 2)
    \o LowerHex(uuid[4][3], 2) \o LowerHex(uuid[4][4], 2)
    \o LowerHex(uuid[4][5], 2) \o LowerHex(uuid[4][6], 2)
    \o LowerHex(uuid[4][7], 2) \o LowerHex(uuid[4][8], 2)

UuidToString(uuid) ==
    LowerHex(uuid[1][1], 4) \o LowerHex(uuid[1][2], 4) \o Hyphen
    \o LowerHex(uuid[2], 4) \o Hyphen
    \o LowerHex(uuid[3], 4) \o Hyphen
    \o LowerHex(uuid[4][1], 2) \o LowerHex(uuid[4][2], 2) \o Hyphen
    \o LowerHex(uuid[4][3], 2) \o LowerHex(uuid[4][4], 2)
    \o LowerHex(uuid[4][5], 2) \o LowerHex(uuid[4][6], 2)
    \o LowerHex(uuid[4][7], 2) \o LowerHex(uuid[4][8], 2)

\* Option<T>: no element or one
None == <<>>
Some(v) == <<v>>
IsSome(o) == Len(o) = 1
Unwrap(o) == o[1]

(***************************************************************************)
(* The PCI identity spoof table: the match on actual_device_id in the      *)
(* NV2080_CTRL_CMD_BUS_GET_PCI_INFO arm.                                   *)
(***************************************************************************)
\* the match of SpoofedIds with the upper end of every range left out
SpoofedIdsExclusive(actual_device_id, actual_sub_system_id) ==
    CASE (\H1340 <= actual_device_id /\ actual_device_id < \H13bd)
         \/ (\H174d <= actual_device_id /\ actual_device_id < \H179c) ->
            <<\H13bd, \H1160>>
      [] (\H13c0 <= actual_device_id /\ actual_device_id < \H1436)
         \/ (\H1617 <= actual_device_id /\ actual_device_id < \H1667)
         \/ (\H17c2 <= actual_device_id /\ actual_device_id < \H17fd) ->
            <<\H13f2, actual_sub_system_id>>
      [] actual_device_id = \H15f0 \/ actual_device_id = \H15f1
         \/ (\H1b00 <= actual_device_id /\ actual_device_id < \H1d56)
         \/ (\H1725 <= actual_device_id /\ actual_device_id < \H172f) ->
            <<\H1b38, actual_sub_system_id>>
      [] actual_device_id = \H1d81 \/ actual_device_id = \H1dba ->
            <<\H1db6, actual_sub_system_id>>
      [] (\H1e02 <= actual_device_id /\ actual_device_id < \H1ff9)
         \/ (\H2182 <= actual_device_id /\ actual_device_id < \H21d1) ->
            <<\H1e30, \H12ba>>
      [] \H2200 <= actual_device_id /\ actual_device_id < \H2600 ->
            <<\H2230, actual_sub_system_id>>
      [] OTHER -> <<actual_device_id, actual_sub_system_id>>

\* a table whose Maxwell replacement lies in the Maxwell 2.0 ranges
SpoofedIdsIntoNextRange(actual_device_id, actual_sub_system_id) ==
    CASE (\H1340 <= actual_device_id /\ actual_device_id <= \H13bd)
         \/ (\H174d <= actual_device_id /\ actual_device_id <= \H179c) ->
            <<\H13c0, \H1160>>
      [] (\H13c0 <= actual_device_id /\ actual_device_id <= \H1436)
         \/ (\H1617 <= actual_device_id /\ actual_device_id <= \H1667)
         \/ (\H17c2 <= actual_device_id /\ actual_device_id <= \H17fd) ->
            <<\H13f2, actual_sub_system_id>>
      [] OTHER -> <<actual_device_id, actual_sub_system_id>>

SpoofedIds(actual_device_id, actual_sub_system_id) ==
    CASE (\H1340 <= actual_device_id /\ actual_device_id <= \H13bd)
         \/ (\H174d <= actual_device_id /\ actual_device_id <= \H179c) ->
            <<\H13bd, \H1160>>
      [] (\H13c0 <= actual_device_id /\ actual_device_id <= \H1436)
         \/ (\H1617 <= actual_device_id /\ actual_device_id <= \H1667)
         \/ (\H17c2 <= actual_device_id /\ actual_device_id <= \H17fd) ->
            <<\H13f2, actual_sub_system_id>>
      [] actual_device_id = \H15f0 \/ actual_device_id = \H15f1
         \/ (\H1b00 <= actual_device_id /\ actual_device_id <= \H1d56)
         \/ (\H1725 <= actual_device_id /\ actual_device_id <= \H172f) ->
            <<\H1b38, actual_sub_system_id>>
      [] actual_device_id = \H1d81 \/ actual_device_id = \H1dba ->
            <<\H1db6, actual_sub_system_id>>
      [] (\H1e02 <= actual_device_id /\ actual_device_id <= \H1ff9)
         \/ (\H2182 <= actual_device_id /\ actual_device_id <= \H21d1) ->
            <<\H1e30, \H12ba>>
      [] \H2200 <= actual_device_id /\ actual_device_id <= \H2600 ->
            <<\H2230, actual_sub_system_id>>
      [] OTHER -> <<actual_device_id, actual_sub_system_id>>

\* SpoofPciInfo writing whole words, and the extended device id as well
SpoofPciInfoWholeWords(params) ==
    LET spoofed == SpoofedIds(Upper16(params.pci_device_id),
                              Upper16(params.pci_sub_system_id))
    IN  [params EXCEPT
            !.pci_device_id = OrShl16(0, spoofed[1]),
            !.pci_sub_system_id = OrShl16(0, spoofed[2]),
            !.pci_ext_device_id = spoofed[1]]

\* the whole arm: both words of Nv2080CtrlBusGetPciInfoParams rewritten
SpoofPciInfo(params) ==
    LET orig_device_id == params.pci_device_id
        orig_sub_system_id == params.pci_sub_system_id
        actual_device_id == Upper16(orig_device_id)
        actual_sub_system_id == Upper16(orig_sub_system_id)
        spoofed == SpoofedIds(actual_device_id, actual_sub_system_id)
    IN  [params EXCEPT
            !.pci_device_id = OrShl16(Lower16(orig_device_id), spoofed[1]),
            !.pci_sub_system_id = OrShl16(Lower16(orig_sub_system_id), spoofed[2])]

(***************************************************************************)
(* apply_profile_override: handle_overrides! walks the declared fields in  *)
(* order.  An override record (VgpuProfileOverride) is a record holding    *)
(* the fields that are Some; a configuration buffer (VgpuConfigLike) is a  *)
(* record of the accessor names.                                           *)
(***************************************************************************)
\* <<class, source_field, target_field>>, in the order of handle_overrides!
FieldTable ==
    << <<"copy", "gpu_type", "vgpu_type">>,
       <<"str", "card_name", "vgpu_name">>,
       <<"str", "vgpu_type", "vgpu_class">>,
       <<"str", "features", "license">>,
       <<"copy", "max_instances", "max_instance">>,
       <<"copy", "num_displays", "num_heads">>,
       <<"copy", "display_width", "max_resolution_x">>,
       <<"copy", "display_height", "max_resolution_y">>,
       <<"copy", "max_pixels", "max_pixels">>,
       <<"copy", "frl_config", "frl_config">>,
       <<"bool", "cuda_enabled", "cuda_enabled">>,
       <<"bool", "ecc_supported", "ecc_supported">>,
       <<"copy", "mig_instance_size", "mig_instance_size">>,
       <<"bool", "multi_vgpu_supported", "multi_vgpu_supported">>,
       <<"copy", "pci_id", "vdev_id">>,
       <<"copy", "pci_device_id", "pdev_id">>,
       <<"copy", "framebuffer", "fb_length">>,
       <<"copy", "mappable_video_size", "mappable_video_size">>,
       <<"copy", "framebuffer_reservation", "fb_reservation">>,
       <<"copy", "encoder_capacity", "encoder_capacity">>,
       <<"copy", "bar1_length", "bar1_length">>,
       <<"bool", "frl_enabled", "frl_enable">>,
       <<"str", "adapter_name", "adapter_name">>,
       <<"wide_str", "adapter_name", "adapter_name_unicode">>,
       <<"str", "short_gpu_name", "short_gpu_name_string">>,
       <<"str", "license_type", "licensed_product_name">> >>

\* str::as_bytes: the UTF-8 encoding of one scalar value; the encoding of a
\* text is that of its halves, one after the other
Utf8(c) ==
    IF c < 128 THEN <<c>>
    ELSE IF c < 2048 THEN <<192 + (c \div 64), 128 + (c % 64)>>
    ELSE IF c < 65536 THEN
        <<224 + (c \div 4096), 128 + ((c \div 64) % 64), 128 + (c % 64)>>
    ELSE <<240 + (c \div 262144), 128 + ((c \div 4096) % 64),
           128 + ((c \div 64) % 64), 128 + (c % 64)>>

RECURSIVE as_bytes(_)
as_bytes(value) ==
    IF value = <<>> THEN <<>>
    ELSE IF Len(value) = 1 THEN Utf8(value[1])
    ELSE as_bytes(SubSeq(value, 1, Len(value) \div 2))
         \o as_bytes(SubSeq(value, (Len(value) \div 2) + 1, Len(value)))

\* str::encode_utf16 of one scalar value
Utf16(c) ==
    IF c < 65536 THEN <<c>>
    ELSE <<55296 + ((c - 65536) \div 1024), 56320 + ((c - 65536) % 1024)>>

RECURSIVE encode_utf16(_)
encode_utf16(value) ==
    IF value = <<>> THEN <<>>
    ELSE IF Len(value) = 1 THEN Utf16(value[1])
    ELSE encode_utf16(SubSeq(value, 1, Len(value) \div 2))
         \o encode_utf16(SubSeq(value, (Len(value) \div 2) + 1, Len(value)))

\* HandleBool storing the value as it is given
HandleBoolUnclamped(config, target_field, value) ==
    [ok |-> TRUE, config |-> [config EXCEPT ![target_field] = value]]

\* class: bool
HandleBool(config, target_field, value) ==
    [ok |-> TRUE,
     config |-> [config EXCEPT ![target_field] = Max(Min(value, 1), 0)]]

\* HandleCopy that adds the value to what the field holds
HandleCopyAccumulate(config, target_field, value) ==
    [ok |-> TRUE,
     config |-> [config EXCEPT ![target_field] = config[target_field] + value]]

\* class: copy
HandleCopy(config, target_field, value) ==
    [ok |-> TRUE, config |-> [config EXCEPT ![target_field] = value]]

\* HandleStr that keeps no byte for the terminator
HandleStrNoTerminator(config, target_field, value) ==
    LET value_bytes == as_bytes(value)
        len == Len(config[target_field])
    IN  IF Len(value_bytes) > len
        THEN [ok |-> FALSE, config |-> config]
        ELSE [ok |-> TRUE,
              config |-> [config EXCEPT ![target_field] =
                  [k \in 1..len |->
                      IF k <= Len(value_bytes) THEN value_bytes[k] ELSE 0]]]

\* HandleStr without its length check: write_all fills the field and its
\* error is dropped
HandleStrUnchecked(config, target_field, value) ==
    [ok |-> TRUE,
     config |-> [config EXCEPT ![target_field] =
         [k \in 1..Len(config[target_field]) |->
             IF k <= Len(as_bytes(value)) THEN as_bytes(value)[k] ELSE 0]]]

\* class: str
HandleStr(config, target_field, value) ==
    LET value_bytes == as_bytes(value)
        len == Len(config[target_field])
    IN  IF Len(value_bytes) > len - 1
        THEN [ok |-> FALSE, config |-> config]
        ELSE [ok |-> TRUE,
              config |-> [config EXCEPT ![target_field] =
                  [k \in 1..len |->
                      IF k <= Len(value_bytes) THEN value_bytes[k] ELSE 0]]]

\* HandleWideStr that writes the units over the field and nothing else: no
\* zeroing first, no terminator after them
HandleWideStrBare(config, target_field, value) ==
    LET units == encode_utf16(value)
        len == Len(config[target_field])
    IN  IF Len(units) > len - 1
        THEN [ok |-> FALSE, config |-> config]
        ELSE [ok |-> TRUE,
              config |-> [config EXCEPT ![target_field] =
                  [k \in 1..len |->
                      IF k <= Len(units) THEN units[k] ELSE config[target_field][k]]]]

\* class: wide_str
HandleWideStr(config, target_field, value) ==
    LET units == encode_utf16(value)
        len == Len(config[target_field])
        \* encode_utf16().chain(Some(0)), zipped with the field
        chained == Append(units, 0)
    IN  IF Len(units) > len - 1
        THEN [ok |-> FALSE, config |-> config]
        ELSE [ok |-> TRUE,
              config |-> [config EXCEPT ![target_field] =
                  [k \in 1..len |->
                      IF k <= Len(chained) THEN chained[k] ELSE 0]]]

handle_override(class, config, target_field, value) ==
    CASE class = "bool" -> HandleBool(config, target_field, value)
      [] class = "copy" -> HandleCopy(config, target_field, value)
      [] class = "str" -> HandleStr(config, target_field, value)
      [] class = "wide_str" -> HandleWideStr(config, target_field, value)

\* fields i.. of the table; log holds the patch_msg! / error_too_long! lines
RECURSIVE handle_overrides(_, _, _, _)
handle_overrides(config, config_override, i, log) ==
    IF i > Len(FieldTable)
    THEN [ok |-> TRUE, config |-> config, log |-> log]
    ELSE LET class == FieldTable[i][1]
             source_field == FieldTable[i][2]
             target_field == FieldTable[i][3]
         IN  IF source_field \notin DOMAIN config_override
             THEN handle_overrides(config, config_override, i + 1, log)
             ELSE LET r == handle_override(class, config, target_field,
                                           config_override[source_field])
                  IN  IF r.ok
                      THEN handle_overrides(r.config, config_override, i + 1,
                               Append(log, <<"patch", target_field>>))
                      ELSE [ok |-> FALSE, config |-> r.config,
                            log |-> Append(log, <<"too_long", target_field>>)]

\* apply_profile_override that puts the buffer back when a field fails
apply_profile_override_atomic(config, config_override) ==
    LET r == handle_overrides(config, config_override, 1, <<>>)
    IN  IF r.ok THEN r ELSE [r EXCEPT !.config = config]

apply_profile_override(config, config_override) ==
    handle_overrides(config, config_override, 1, <<>>)

(***************************************************************************)
(* The readers of the text fields: utils::from_c_str for the byte fields   *)
(* and WideCharFormat for the UTF-16 field.  Both stop at the first zero   *)
(* and decode what stands before it.                                       *)
(***************************************************************************)
\* value.iter().position(|&c| c == 0).unwrap_or(value.len()), counted from 1
FirstZero(value) ==
    IF \E k \in 1..Len(value) : value[k] = 0
    THEN CHOOSE k \in 1..Len(value) :
             value[k] = 0 /\ \A j \in 1..(k - 1) : value[j] # 0
    ELSE Len(value) + 1

\* &value[..len]; take_while(|&ch| ch != 0)
UntilZero(value) == SubSeq(value, 1, FirstZero(value) - 1)

\* a UTF-8 continuation byte
IsCont(b) == 128 <= b /\ b <= 191

\* the bytes a sequence starting with lead byte b takes (0: no lead byte)
Utf8Width(b) ==
    IF b < 128 THEN 1
    ELSE IF 194 <= b /\ b <= 223 THEN 2
    ELSE IF 224 <= b /\ b <= 239 THEN 3
    ELSE IF 240 <= b /\ b <= 244 THEN 4
    ELSE 0

\* the second byte of a sequence: no overlong form, no surrogate, nothing
\* above U+10FFFF
SecondOk(b, c) ==
    IF b = 224 THEN 160 <= c /\ c <= 191
    ELSE IF b = 237 THEN 128 <= c /\ c <= 159
    ELSE IF b = 240 THEN 144 <= c /\ c <= 191
    ELSE IF b = 244 THEN 128 <= c /\ c <= 143
    ELSE IsCont(c)

\* how many bytes of the sequence at the head of bytes are well formed
Utf8Good(bytes) ==
    IF Utf8Width(bytes[1]) <= 1 THEN 1
    ELSE IF Len(bytes) < 2 \/ ~SecondOk(bytes[1], bytes[2]) THEN 1
    ELSE IF Utf8Width(bytes[1]) = 2 THEN 2
    ELSE IF Len(bytes) < 3 \/ ~IsCont(bytes[3]) THEN 2
    ELSE IF Utf8Width(bytes[1]) = 3 THEN 3
    ELSE IF Len(bytes) < 4 \/ ~IsCont(bytes[4]) THEN 3
    ELSE 4

\* the scalar value of a well-formed sequence of w bytes
Utf8Scalar(bytes, w) ==
    CASE w = 1 -> bytes[1]
      [] w = 2 -> ((bytes[1] - 192) * 64) + (bytes[2] - 128)
      [] w = 3 -> ((bytes[1] - 224) * 4096) + ((bytes[2] - 128) * 64) + (bytes[3] - 128)
      [] w = 4 -> ((bytes[1] - 240) * 262144) + ((bytes[2] - 128) * 4096)
                  + ((bytes[3] - 128) * 64) + (bytes[4] - 128)

\* char::REPLACEMENT_CHARACTER
REPLACEMENT_CHARACTER == 65533

\* how far position p is from the middle of a sequence of n elements
OffCentre(p, n) == Max((2 * p) - n, n - (2 * p))

\* a place to cut a byte sequence in two, as near to its middle as there is
\* one: a position from 2 on that holds no continuation byte (0: none)
Utf8CutPoint(bytes) ==
    IF \E p \in 2..Len(bytes) : ~IsCont(bytes[p])
    THEN CHOOSE p \in 2..Len(bytes) :
             /\ ~IsCont(bytes[p])
             /\ \A q \in 2..Len(bytes) :
                    ~IsCont(bytes[q]) =>
                        OffCentre(p, Len(bytes)) <= OffCentre(q, Len(bytes))
    ELSE 0

\* String::from_utf8_lossy: every maximal ill-formed part becomes U+FFFD.  A
\* byte that is no continuation byte starts afresh, so the text is decoded
\* part by part; in a part that cannot be cut, whatever follows the sequence
\* at its head is stray continuation bytes.
RECURSIVE from_utf8_lossy(_)
from_utf8_lossy(bytes) ==
    IF bytes = <<>> THEN <<>>
    ELSE IF Utf8CutPoint(bytes) # 0
    THEN from_utf8_lossy(SubSeq(bytes, 1, Utf8CutPoint(bytes) - 1))
         \o from_utf8_lossy(SubSeq(bytes, Utf8CutPoint(bytes), Len(bytes)))
    ELSE IF Utf8Width(bytes[1]) # 0 /\ Utf8Good(bytes) = Utf8Width(bytes[1])
    THEN <<Utf8Scalar(bytes, Utf8Width(bytes[1]))>>
         \o [k \in 1..(Len(bytes) - Utf8Width(bytes[1])) |-> REPLACEMENT_CHARACTER]
    ELSE <<REPLACEMENT_CHARACTER>>
         \o [k \in 1..(Len(bytes) - Utf8Good(bytes)) |-> REPLACEMENT_CHARACTER]

\* utils::from_c_str
from_c_str(value) == from_utf8_lossy(UntilZero(value))

IsHighSurrogate(u) == 55296 <= u /\ u <= 56319
IsLowSurrogate(u) == 56320 <= u /\ u <= 57343

\* a place to cut a unit sequence in two: a position from 2 on that holds
\* no low surrogate (0: none)
Utf16CutPoint(units) ==
    IF \E p \in 2..Len(units) : ~IsLowSurrogate(units[p])
    THEN CHOOSE p \in 2..Len(units) :
             /\ ~IsLowSurrogate(units[p])
             /\ \A q \in 2..Len(units) :
                    ~IsLowSurrogate(units[q]) =>
                        OffCentre(p, Len(units)) <= OffCentre(q, Len(units))
    ELSE 0

\* char::decode_utf16(..) with item.unwrap_or(char::REPLACEMENT_CHARACTER).
\* A unit that is no low surrogate starts afresh; in a part that cannot be
\* cut, whatever follows the pair or unit at its head is stray low
\* surrogates.
RECURSIVE decode_utf16(_)
decode_utf16(units) ==
    IF units = <<>> THEN <<>>
    ELSE IF Utf16CutPoint(units) # 0
    THEN decode_utf16(SubSeq(units, 1, Utf16CutPoint(units) - 1))
         \o decode_utf16(SubSeq(units, Utf16CutPoint(units), Len(units)))
    ELSE IF IsHighSurrogate(units[1]) /\ Len(units) >= 2
    THEN <<65536 + ((units[1] - 55296) * 1024) + (units[2] - 56320)>>
         \o [k \in 1..(Len(units) - 2) |-> REPLACEMENT_CHARACTER]
    ELSE IF IsHighSurrogate(units[1]) \/ IsLowSurrogate(units[1])
    THEN [k \in 1..Len(units) |-> REPLACEMENT_CHARACTER]
    ELSE <<units[1]>> \o [k \in 1..(Len(units) - 1) |-> REPLACEMENT_CHARACTER]

\* impl fmt::Display for WideCharFormat
WideCharFormat(units) == decode_utf16(UntilZero(units))

(***************************************************************************)
(* The profile override file and handle_profile_override.                  *)
(*                                                                         *)
(* The file is one of: absent ("NotFound"), unreadable ("ReadError"),      *)
(* readable but not valid TOML for ProfileOverridesConfig ("Malformed"),   *)
(* or parsed ("Parsed", with its profile and mdev tables: functions from   *)
(* key text to override record).                                           *)
(*                                                                         *)
(* A trace is the sequence of the side effects of one call, in order.      *)
(***************************************************************************)
\* "nvidia-"
NvidiaPrefix == <<110, 118, 105, 100, 105, 97, 45>>

\* load_overrides that makes no exception for a file that is not there
load_overrides_strict(file) ==
    CASE file.kind = "NotFound" ->
            [ok |-> FALSE, err |-> FALSE,
             trace |-> << <<"read_file">>, <<"error", "not found">> >>]
      [] file.kind = "ReadError" ->
            [ok |-> FALSE, err |-> FALSE,
             trace |-> << <<"read_file">>, <<"error", "read">> >>]
      [] OTHER ->
            [ok |-> TRUE, err |-> FALSE, trace |-> << <<"read_file">> >>]

\* Result<String, bool>
load_overrides(file) ==
    CASE file.kind = "NotFound" ->
            [ok |-> FALSE, err |-> TRUE,
             trace |-> << <<"read_file">>, <<"error", "not found">> >>]
      [] file.kind = "ReadError" ->
            [ok |-> FALSE, err |-> FALSE,
             trace |-> << <<"read_file">>, <<"error", "read">> >>]
      [] OTHER ->
            [ok |-> TRUE, err |-> FALSE, trace |-> << <<"read_file">> >>]

\* let mdev_uuid = LAST_MDEV_UUID.lock().clone(): the value read and the
\* value the static holds afterwards
ReadLastMdevUuid(last) == [value |-> last, last |-> last]

\* the state of handle_profile_override once apply_profile_override has
\* returned r for the entry found under key in table
ApplyResult(st, table, key, r) ==
    [st EXCEPT !.result = r.ok,
               !.config = r.config,
               !.trace = (@ \o << <<"info", "applying">> >>) \o r.log,
               !.applied = Append(@, <<table, key>>)]

\* one matched table entry applied on top of the state so far
ApplyMatched(st, table, key, record) ==
    ApplyResult(st, table, key, apply_profile_override(st.config, record))

\* if let Some(config_override) = entries.get(key) { .. }
LookupAndApply(st, table, entries, key) ==
    IF key \in DOMAIN entries THEN ApplyMatched(st, table, key, entries[key]) ELSE st

\* if let Some(mdev_uuid) = mdev_uuid.map(|uuid| uuid.to_string()) { .. }
ApplyMdev(st, mdev_uuid, file) ==
    IF IsSome(mdev_uuid)
    THEN LookupAndApply(st, "mdev", file.mdev, UuidToString(Unwrap(mdev_uuid)))
    ELSE st

\* AfterProfile that goes on to the mdev table whatever the profile entry did
AfterProfileAlways(st, mdev_uuid, file) ==
    ApplyMdev(st, mdev_uuid, file)

\* the rest of handle_profile_override after the profile table: a failed
\* profile entry returns false before the mdev table is looked at
AfterProfile(st, mdev_uuid, file) ==
    IF ~st.result THEN st ELSE ApplyMdev(st, mdev_uuid, file)

\* handle_profile_override from the format! of the profile key on; read is
\* the outcome of reading LAST_MDEV_UUID
ApplyTables(st, read, file) ==
    AfterProfile(LookupAndApply([st EXCEPT !.last = read.last], "profile",
                     file.profile, NvidiaPrefix \o Decimal(st.config.vgpu_type)),
                 read.value, file)

\* handle_profile_override before anything is applied
Untouched(config, last, trace) ==
    [result |-> TRUE, config |-> config, last |-> last, trace |-> trace,
     applied |-> <<>>]

\* HandleLoaded that drops the remembered identity when the file does not
\* decode
HandleLoadedForgetful(loaded, config, last, file) ==
    IF ~loaded.ok
    THEN [Untouched(config, last, loaded.trace) EXCEPT !.result = loaded.err]
    ELSE IF file.kind = "Malformed"
    THEN [Untouched(config, None,
                    loaded.trace \o << <<"parse">>, <<"error", "decode">> >>)
             EXCEPT !.result = FALSE]
    ELSE ApplyTables(Untouched(config, last,
                         loaded.trace \o << <<"parse">>, <<"lock">>, <<"unlock">> >>),
                     ReadLastMdevUuid(last), file)

\* handle_profile_override once load_overrides has returned loaded
HandleLoaded(loaded, config, last, file) ==
    IF ~loaded.ok
    THEN [Untouched(config, last, loaded.trace) EXCEPT !.result = loaded.err]
    ELSE IF file.kind = "Malformed"
    THEN [Untouched(config, last,
                    loaded.trace \o << <<"parse">>, <<"error", "decode">> >>)
             EXCEPT !.result = FALSE]
    ELSE ApplyTables(Untouched(config, last,
                         loaded.trace \o << <<"parse">>, <<"lock">>, <<"unlock">> >>),
                     ReadLastMdevUuid(last), file)

handle_profile_override(config, last, file) ==
    HandleLoaded(load_overrides(file), config, last, file)

(***************************************************************************)
(* The build with feature "proxmox": uuid_to_vmid and the third match of   *)
(* handle_profile_override, by VM id, in the table vm of the file.  A u64  *)
(* VM id is <<its decimal digits above the lowest six, its lowest six>>.   *)
(***************************************************************************)
\* format!("{:02x}{:02x}{:02x}{:02x}{:02x}{:02x}", uuid.3[2], .., uuid.3[7])
LastSegmentText(uuid) ==
    LowerHex(uuid[4][3], 2) \o LowerHex(uuid[4][4], 2)
    \o LowerHex(uuid[4][5], 2) \o LowerHex(uuid[4][6], 2)
    \o LowerHex(uuid[4][7], 2) \o LowerHex(uuid[4][8], 2)

IsDecimalDigit(c) == 48 <= c /\ c <= 57

\* the number six decimal digits stand for
SixDigits(s, from) ==
    ((s[from] - 48) * 100000) + ((s[from + 1] - 48) * 10000)
    + ((s[from + 2] - 48) * 1000) + ((s[from + 3] - 48) * 100)
    + ((s[from + 4] - 48) * 10) + (s[from + 5] - 48)

\* str::parse::<u64>().ok() of twelve characters: a character that is no
\* decimal digit is an error
ParseU64(s) ==
    IF \A k \in 1..Len(s) : IsDecimalDigit(s[k])
    THEN Some(<<SixDigits(s, 1), SixDigits(s, 7)>>)
    ELSE None

\* uuid_to_vmid without its test of the segments that should be zero
uuid_to_vmid_unchecked(uuid) == ParseU64(LastSegmentText(uuid))

\* utils::uuid_to_vmid
uuid_to_vmid(uuid) ==
    IF uuid[2] # 0 \/ uuid[3] # 0 \/ uuid[4][1] # 0 \/ uuid[4][2] # 0
    THEN None
    ELSE ParseU64(LastSegmentText(uuid))

\* u64::to_string
U64ToString(v) ==
    IF v[1] = 0 THEN Decimal(v[2])
    ELSE Decimal(v[1]) \o [k \in 1..(6 - Len(Decimal(v[2]))) |-> 48] \o Decimal(v[2])

\* if let Some(vmid) = mdev_uuid.and_then(uuid_to_vmid) { .. }
ApplyVmid(st, vmid, vm) ==
    IF IsSome(vmid)
    THEN LookupAndApply(st, "vm", vm, U64ToString(Unwrap(vmid)))
    ELSE st

ApplyVm(st, mdev_uuid, vm) ==
    IF IsSome(mdev_uuid)
    THEN ApplyVmid(st, uuid_to_vmid(Unwrap(mdev_uuid)), vm)
    ELSE st

\* the third match is reached when the file was parsed and neither of the
\* first two matches failed
AfterMdev(st, mdev_uuid, file, vm) ==
    IF file.kind # "Parsed" \/ ~st.result THEN st ELSE ApplyVm(st, mdev_uuid, vm)

\* handle_profile_override of the build with feature "proxmox"; vm is the
\* table vm of the file
handle_profile_override_proxmox(config, last, file, vm) ==
    AfterMdev(handle_profile_override(config, last, file), last, file, vm)

(***************************************************************************)
(* human_number: the decoder of framebuffer, mappable_video_size and       *)
(* framebuffer_reservation given as a quoted text.                         *)
(*                                                                         *)
(* Numbers here go beyond 32 bits: a number is its LimbCount limbs of 15   *)
(* bits each, the lowest first.  An f64 that holds a whole number is that  *)
(* number, rounded to 53 significant bits.                                 *)
(***************************************************************************)
LimbBits == 15
LimbBase == Pow2(LimbBits)
LimbCount == 8

BigZero == [i \in 1..LimbCount |-> 0]

\* the limbs from i on of N * m + carry, for m and carry below the base
RECURSIVE MulAddFrom(_, _, _, _)
MulAddFrom(N, m, carry, i) ==
    IF i > LimbCount THEN <<>>
    ELSE CHOOSE limbs \in
             { <<t % LimbBase>> \o MulAddFrom(N, m, t \div LimbBase, i + 1) :
                 t \in {(N[i] * m) + carry} } : TRUE

BigMulAdd(N, m, a) == CHOOSE R \in {MulAddFrom(n, m, a, 1) : n \in {N}} : TRUE

\* N * m * m * .. (times factors of m)
RECURSIVE BigMulPow(_, _, _)
BigMulPow(N, m, times) ==
    IF times = 0 THEN N ELSE BigMulPow(BigMulAdd(N, m, 0), m, times - 1)

\* the number a text of decimal digits stands for
RECURSIVE BigFromDecimal(_)
BigFromDecimal(digits) ==
    IF digits = <<>> THEN BigZero
    ELSE BigMulAdd(BigFromDecimal(SubSeq(digits, 1, Len(digits) - 1)), 10,
                   digits[Len(digits)] - 48)

\* the number of significant bits of a limb and of a number
LimbBitLength(x) ==
    IF x = 0 THEN 0
    ELSE CHOOSE b \in 1..LimbBits : Pow2(b - 1) <= x /\ x < Pow2(b)

TopLimb(N) ==
    IF \A i \in 1..LimbCount : N[i] = 0 THEN 0
    ELSE CHOOSE i \in 1..LimbCount :
             N[i] # 0 /\ \A j \in (i + 1)..LimbCount : N[j] = 0

BitLength(N) ==
    IF TopLimb(N) = 0 THEN 0
    ELSE (LimbBits * (TopLimb(N) - 1)) + LimbBitLength(N[TopLimb(N)])

\* bit k of N, bit 0 being the lowest
Bit(N, k) == (N[(k \div LimbBits) + 1] \div Pow2(k % LimbBits)) % 2

\* N with its d lowest bits set to zero
ClearLow(N, d) ==
    [i \in 1..LimbCount |->
        IF LimbBits * i <= d THEN 0
        ELSE IF LimbBits * (i - 1) >= d THEN N[i]
        ELSE N[i] - (N[i] % Pow2(d - (LimbBits * (i - 1))))]

\* the limbs from i on of N with carry added to limb i
RECURSIVE AddFrom(_, _, _)
AddFrom(N, carry, i) ==
    IF i > LimbCount THEN <<>>
    ELSE CHOOSE limbs \in
             { <<t % LimbBase>> \o AddFrom(N, t \div LimbBase, i + 1) :
                 t \in {N[i] + carry} } : TRUE

\* N + 2^d
BigAddPow2(N, d) ==
    SubSeq(N, 1, d \div LimbBits)
    \o AddFrom(N, Pow2(d % LimbBits), (d \div LimbBits) + 1)

\* N with its d lowest bits rounded away, to nearest, ties to even
RoundAt(N, d) ==
    IF Bit(N, d - 1) = 1
       /\ (Bit(N, d) = 1 \/ \E k \in 0..(d - 2) : Bit(N, k) = 1)
    THEN BigAddPow2(ClearLow(N, d), d)
    ELSE ClearLow(N, d)

\* the f64 nearest to the whole number N
RoundF64(N) == IF BitLength(N) <= 53 THEN N ELSE RoundAt(N, BitLength(N) - 53)

\* u64::MAX
U64_MAX ==
    [i \in 1..LimbCount |->
        IF LimbBits * i <= 64 THEN LimbBase - 1
        ELSE IF LimbBits * (i - 1) >= 64 THEN 0
        ELSE Pow2(64 - (LimbBits * (i - 1))) - 1]

\* value.round() as u64 of an f64 that holds the whole number N: the cast
\* saturates
F64AsU64(N) == IF BitLength(N) > 64 THEN U64_MAX ELSE N

\* char::is_whitespace for the characters of one byte
IsWhitespace(c) == c \in {9, 10, 11, 12, 13, 32}

\* str::trim, str::trim_start
TrimStart(v) ==
    IF \A k \in 1..Len(v) : IsWhitespace(v[k]) THEN <<>>
    ELSE SubSeq(v, CHOOSE k \in 1..Len(v) :
                       ~IsWhitespace(v[k]) /\ \A j \in 1..(k - 1) : IsWhitespace(v[j]),
                Len(v))

TrimEnd(v) ==
    IF \A k \in 1..Len(v) : IsWhitespace(v[k]) THEN <<>>
    ELSE SubSeq(v, 1, CHOOSE k \in 1..Len(v) :
                          ~IsWhitespace(v[k])
                          /\ \A j \in (k + 1)..Len(v) : IsWhitespace(v[j]))

Trim(v) == TrimEnd(TrimStart(v))

\* (byte as char).is_numeric() || ch == '.': the decimal digits, the
\* superscripts and fractions of Latin-1, and the dot
IsNumberByte(b) ==
    \/ 48 <= b /\ b <= 57
    \/ b \in {178, 179, 185, 188, 189, 190}
    \/ b = 46

\* .position(|ch| !(ch.is_numeric() || ch == '.')), counted from 1; 0: None
UnitIndex(bytes) ==
    IF \A k \in 1..Len(bytes) : IsNumberByte(bytes[k]) THEN 0
    ELSE CHOOSE k \in 1..Len(bytes) :
             ~IsNumberByte(bytes[k]) /\ \A j \in 1..(k - 1) : IsNumberByte(bytes[j])

\* the arms of match unit.trim_start(): <<factor, how many times>>
\* "KB" | "kB", "MB", "GB", "TB", "KiB", "MiB", "GiB", "TiB"
Multiple(unit) ==
    CASE unit \in {<<75, 66>>, <<107, 66>>} -> Some(<<1000, 1>>)
      [] unit = <<77, 66>> -> Some(<<1000, 2>>)
      [] unit = <<71, 66>> -> Some(<<1000, 3>>)
      [] unit = <<84, 66>> -> Some(<<1000, 4>>)
      [] unit = <<75, 105, 66>> -> Some(<<1024, 1>>)
      [] unit = <<77, 105, 66>> -> Some(<<1024, 2>>)
      [] unit = <<71, 105, 66>> -> Some(<<1024, 3>>)
      [] unit = <<84, 105, 66>> -> Some(<<1024, 4>>)
      [] OTHER -> None

IsDecimalText(value) ==
    value # <<>> /\ \A k \in 1..Len(value) : 48 <= value[k] /\ value[k] <= 57

\* Ok(Some(N)); Err(..) with what it reports
HumanOk(N) == [ok |-> TRUE, value |-> N, error |-> ""]
HumanErr(what) == [ok |-> FALSE, value |-> BigZero, error |-> what]

\* v.parse::<u64>()
ParseRaw(v) ==
    IF ~IsDecimalText(v) THEN HumanErr("number")
    ELSE IF BitLength(BigFromDecimal(v)) > 64 THEN HumanErr("number")
    ELSE HumanOk(BigFromDecimal(v))

\* the arm Some(unit_index) with value and unit split at the index; value
\* is parsed as f64, multiplied as f64, rounded and cast.  Texts with a dot
\* or a Latin-1 numeral in the value are not modelled further: they are
\* reported as "fraction".
WithUnit(value, unit) ==
    IF value = <<>> THEN HumanErr("number")
    ELSE IF ~IsDecimalText(value) THEN HumanErr("fraction")
    ELSE IF ~IsSome(Multiple(TrimStart(unit))) THEN HumanErr("unit")
    ELSE HumanOk(F64AsU64(RoundF64(
             BigMulPow(RoundF64(BigFromDecimal(value)),
                       Multiple(TrimStart(unit))[1][1],
                       Multiple(TrimStart(unit))[1][2]))))

SplitAtUnit(v, unit_index) ==
    IF unit_index = 0 THEN ParseRaw(v)
    ELSE WithUnit(SubSeq(v, 1, unit_index - 1), SubSeq(v, unit_index, Len(v)))

VisitTrimmed(v) ==
    IF v = <<>> THEN HumanErr("empty") ELSE SplitAtUnit(v, UnitIndex(as_bytes(v)))

\* HumanNumberVisitor::visit_str
visit_str(v) == VisitTrimmed(Trim(v))

(***************************************************************************)
(* The hook: ioctl(fd, request, argp).  io_data is the Nvos54Parameters    *)
(* behind argp as the original call left it: [cmd, params_size, status,    *)
(* params], params being the parameter block behind io_data.params.        *)
(***************************************************************************)
\* check_size accepting any buffer that is large enough
check_size_at_least(actual_size, expected_size) == actual_size >= expected_size

\* check_size accepting any buffer that is not larger than the layout
check_size_at_most(actual_size, expected_size) == actual_size <= expected_size

check_size(actual_size, expected_size) == actual_size = expected_size

\* the error! line of a failed check_size
SizeTrace(actual_size, expected_size) ==
    IF check_size(actual_size, expected_size) THEN <<>> ELSE << <<"error", "size">> >>

\* the three patches placed under if io_data.status == NV_OK
PrePassOnlyWhenOk(io_data, config) ==
    IF io_data.status # NV_OK THEN io_data ELSE
    CASE io_data.cmd = NV2080_CTRL_CMD_BUS_GET_PCI_INFO ->
            IF check_size(io_data.params_size,
                          size_of(Nv2080CtrlBusGetPciInfoParamsLayout, 1))
               /\ config.unlock
            THEN [io_data EXCEPT !.params = SpoofPciInfo(@)]
            ELSE io_data
      [] io_data.cmd = NV0080_CTRL_CMD_GPU_GET_VIRTUALIZATION_MODE ->
            IF check_size(io_data.params_size,
                          size_of(Nv0080CtrlGpuGetVirtualizationModeParamsLayout, 1))
               /\ config.unlock
            THEN [io_data EXCEPT !.params.virtualization_mode =
                                     NV0080_CTRL_GPU_VIRTUALIZATION_MODE_HOST]
            ELSE io_data
      [] io_data.cmd = NVA081_CTRL_CMD_VGPU_CONFIG_GET_MIGRATION_CAP ->
            IF check_size(io_data.params_size,
                          size_of(NvA081CtrlCmdVgpuConfigGetMigrationCapParamsLayout, 1))
               /\ config.unlock_migration
            THEN [io_data EXCEPT !.params.migration_cap = 1]
            ELSE io_data
      [] OTHER -> io_data

\* match io_data.cmd { .. } of the three patches
PrePass(io_data, config) ==
    CASE io_data.cmd = NV2080_CTRL_CMD_BUS_GET_PCI_INFO ->
            IF check_size(io_data.params_size,
                          size_of(Nv2080CtrlBusGetPciInfoParamsLayout, 1))
               /\ config.unlock
            THEN [io_data EXCEPT !.params = SpoofPciInfo(@)]
            ELSE io_data
      [] io_data.cmd = NV0080_CTRL_CMD_GPU_GET_VIRTUALIZATION_MODE ->
            IF check_size(io_data.params_size,
                          size_of(Nv0080CtrlGpuGetVirtualizationModeParamsLayout, 1))
               /\ config.unlock
            THEN [io_data EXCEPT !.params.virtualization_mode =
                                     NV0080_CTRL_GPU_VIRTUALIZATION_MODE_HOST]
            ELSE io_data
      [] io_data.cmd = NVA081_CTRL_CMD_VGPU_CONFIG_GET_MIGRATION_CAP ->
            IF check_size(io_data.params_size,
                          size_of(NvA081CtrlCmdVgpuConfigGetMigrationCapParamsLayout, 1))
               /\ config.unlock_migration
            THEN [io_data EXCEPT !.params.migration_cap = 1]
            ELSE io_data
      [] OTHER -> io_data

PrePassTrace(io_data) ==
    CASE io_data.cmd = NV2080_CTRL_CMD_BUS_GET_PCI_INFO ->
            SizeTrace(io_data.params_size,
                      size_of(Nv2080CtrlBusGetPciInfoParamsLayout, 1))
      [] io_data.cmd = NV0080_CTRL_CMD_GPU_GET_VIRTUALIZATION_MODE ->
            SizeTrace(io_data.params_size,
                      size_of(Nv0080CtrlGpuGetVirtualizationModeParamsLayout, 1))
      [] io_data.cmd = NVA081_CTRL_CMD_VGPU_CONFIG_GET_MIGRATION_CAP ->
            SizeTrace(io_data.params_size,
                      size_of(NvA081CtrlCmdVgpuConfigGetMigrationCapParamsLayout, 1))
      [] OTHER -> <<>>

\* TypeInfoSizeAccepted without the two sizes of the newer drivers
TypeInfoSizeExactOnly(params_size) ==
    check_size(params_size,
               size_of(NvA081CtrlVgpuConfigGetVgpuTypeInfoParamsLayout, 1))

\* io_data.params_size == 5232 || io_data.params_size == 5096 || check_size!(..)
TypeInfoSizeAccepted(params_size) ==
    \/ params_size = TYPE_INFO_SIZE_V18
    \/ params_size = TYPE_INFO_SIZE_V17
    \/ check_size(params_size,
                  size_of(NvA081CtrlVgpuConfigGetVgpuTypeInfoParamsLayout, 1))

\* what the post-pass hands on: the buffer, the static, whether the hook
\* goes on (ok) or returns -1, the side effects, the table entries applied
PostNothing(io_data, last) ==
    [io_data |-> io_data, last |-> last, ok |-> TRUE, trace |-> <<>>,
     applied |-> <<>>]

\* StoreLastMdevUuid keeping an identity that is already remembered
StoreLastMdevUuidKeepFirst(io_data, last, uuid) ==
    [io_data |-> io_data, last |-> IF last = <<>> THEN <<uuid>> ELSE last,
     ok |-> TRUE, trace |-> << <<"info", "params">>, <<"lock">>, <<"unlock">> >>,
     applied |-> <<>>]

\* *LAST_MDEV_UUID.lock() = Some(uuid)
StoreLastMdevUuid(io_data, last, uuid) ==
    [PostNothing(io_data, Some(uuid)) EXCEPT
        !.trace = << <<"info", "params">>, <<"lock">>, <<"unlock">> >>]

\* a type-info arm once handle_profile_override has returned r, params
\* being the parameter block around r.config
OverrideArm(io_data, r, params) ==
    [io_data |-> [io_data EXCEPT !.params = params],
     last |-> r.last,
     ok |-> r.result,
     trace |-> (<< <<"info", "params">> >> \o r.trace)
               \o (IF r.result THEN <<>> ELSE << <<"error", "override">> >>),
     applied |-> r.applied]

\* the 0xa0810103 arm once handle_profile_override has returned r
OverrideArmA081(io_data, r) ==
    OverrideArm(io_data, r, [io_data.params EXCEPT !.vgpu_type_info = r.config])

\* the 0xa0820102 arm once handle_profile_override has returned r
OverrideArmA082(io_data, r) == OverrideArm(io_data, r, r.config)

\* handle_profile_override(&mut params.vgpu_type_info)
TypeInfoArmA081(io_data, last, file) ==
    OverrideArmA081(io_data,
        handle_profile_override(io_data.params.vgpu_type_info, last, file))

\* handle_profile_override(params)
TypeInfoArmA082(io_data, last, file) ==
    OverrideArmA082(io_data, handle_profile_override(io_data.params, last, file))

\* match io_data.cmd { .. } of the post-pass
PostPassMatch(io_data, last, file) ==
    CASE io_data.cmd = NV0000_CTRL_CMD_VGPU_GET_START_DATA ->
            IF check_size(io_data.params_size,
                          size_of(Nv0000CtrlVgpuGetStartDataParamsLayout, 1))
            THEN StoreLastMdevUuid(io_data, last, io_data.params.mdev_uuid)
            ELSE [PostNothing(io_data, last) EXCEPT !.trace = << <<"error", "size">> >>]
      [] io_data.cmd = NV0000_CTRL_CMD_VGPU_CREATE_DEVICE ->
            IF check_size(io_data.params_size,
                          size_of(Nv0000CtrlVgpuCreateDeviceParamsLayout, 1))
            THEN StoreLastMdevUuid(io_data, last, io_data.params.vgpu_name)
            ELSE [PostNothing(io_data, last) EXCEPT !.trace = << <<"error", "size">> >>]
      [] io_data.cmd = NVA081_CTRL_CMD_VGPU_CONFIG_GET_VGPU_TYPE_INFO ->
            IF TypeInfoSizeAccepted(io_data.params_size)
            THEN TypeInfoArmA081(io_data, last, file)
            ELSE [PostNothing(io_data, last) EXCEPT !.trace = << <<"error", "size">> >>]
      [] io_data.cmd = NVA082_CTRL_CMD_HOST_VGPU_DEVICE_GET_VGPU_TYPE_INFO ->
            IF check_size(io_data.params_size,
                          size_of(NvA082CtrlCmdHostVgpuDeviceGetVgpuTypeInfoParamsLayout, 1))
            THEN TypeInfoArmA082(io_data, last, file)
            ELSE [PostNothing(io_data, last) EXCEPT !.trace = << <<"error", "size">> >>]
      [] OTHER -> PostNothing(io_data, last)

\* the post-pass match without its status test
PostPassAnyStatus(io_data, last, file) == PostPassMatch(io_data, last, file)

\* if io_data.status == NV_OK { match io_data.cmd { .. } }
PostPass(io_data, last, file) ==
    IF io_data.status = NV_OK
    THEN PostPassMatch(io_data, last, file)
    ELSE PostNothing(io_data, last)

\* the size of the layout the pre-pass casts io_data.params to, if it
\* casts: let params: &mut T = &mut *io_data.params.cast()
PrePassView(io_data, config) ==
    CASE io_data.cmd = NV2080_CTRL_CMD_BUS_GET_PCI_INFO ->
            IF check_size(io_data.params_size,
                          size_of(Nv2080CtrlBusGetPciInfoParamsLayout, 1))
               /\ config.unlock
            THEN Some(size_of(Nv2080CtrlBusGetPciInfoParamsLayout, 1))
            ELSE None
      [] io_data.cmd = NV0080_CTRL_CMD_GPU_GET_VIRTUALIZATION_MODE ->
            IF check_size(io_data.params_size,
                          size_of(Nv0080CtrlGpuGetVirtualizationModeParamsLayout, 1))
               /\ config.unlock
            THEN Some(size_of(Nv0080CtrlGpuGetVirtualizationModeParamsLayout, 1))
            ELSE None
      [] io_data.cmd = NVA081_CTRL_CMD_VGPU_CONFIG_GET_MIGRATION_CAP ->
            IF check_size(io_data.params_size,
                          size_of(NvA081CtrlCmdVgpuConfigGetMigrationCapParamsLayout, 1))
               /\ config.unlock_migration
            THEN Some(size_of(NvA081CtrlCmdVgpuConfigGetMigrationCapParamsLayout, 1))
            ELSE None
      [] OTHER -> None

\* the size of the layout the post-pass casts io_data.params to, if it
\* casts
PostPassView(io_data) ==
    IF io_data.status # NV_OK THEN None ELSE
    CASE io_data.cmd = NV0000_CTRL_CMD_VGPU_GET_START_DATA ->
            IF check_size(io_data.params_size,
                          size_of(Nv0000CtrlVgpuGetStartDataParamsLayout, 1))
            THEN Some(size_of(Nv0000CtrlVgpuGetStartDataParamsLayout, 1))
            ELSE None
      [] io_data.cmd = NV0000_CTRL_CMD_VGPU_CREATE_DEVICE ->
            IF check_size(io_data.params_size,
                          size_of(Nv0000CtrlVgpuCreateDeviceParamsLayout, 1))
            THEN Some(size_of(Nv0000CtrlVgpuCreateDeviceParamsLayout, 1))
            ELSE None
      [] io_data.cmd = NVA081_CTRL_CMD_VGPU_CONFIG_GET_VGPU_TYPE_INFO ->
            IF TypeInfoSizeAccepted(io_data.params_size)
            THEN Some(size_of(NvA081CtrlVgpuConfigGetVgpuTypeInfoParamsLayout, 1))
            ELSE None
      [] io_data.cmd = NVA082_CTRL_CMD_HOST_VGPU_DEVICE_GET_VGPU_TYPE_INFO ->
            IF check_size(io_data.params_size,
                          size_of(NvA082CtrlCmdHostVgpuDeviceGetVgpuTypeInfoParamsLayout, 1))
            THEN Some(size_of(NvA082CtrlCmdHostVgpuDeviceGetVgpuTypeInfoParamsLayout, 1))
            ELSE None
      [] OTHER -> None

\* StatusCleanup that knows NV9096_CTRL_CMD_GET_ZBC_CLEAR_TABLE only
StatusCleanupZbcOnly(io_data) ==
    IF io_data.status # NV_OK /\ io_data.cmd = NV9096_CTRL_CMD_GET_ZBC_CLEAR_TABLE
    THEN [io_data EXCEPT !.status = NV_OK]
    ELSE io_data

\* if io_data.status != NV_OK { .. }
StatusCleanup(io_data) ==
    IF io_data.status # NV_OK
    THEN IF io_data.cmd = CMD_A0820104 \/ io_data.cmd = NV9096_CTRL_CMD_GET_ZBC_CLEAR_TABLE
         THEN [io_data EXCEPT !.status = NV_OK]
         ELSE io_data
    ELSE io_data

StatusCleanupTrace(io_data) ==
    IF io_data.status # NV_OK
       /\ ~(io_data.cmd = CMD_A0820104 \/ io_data.cmd = NV9096_CTRL_CMD_GET_ZBC_CLEAR_TABLE)
    THEN << <<"error", "cmd failed">> >>
    ELSE <<>>

\* InforomWorkaround left out
InforomWorkaroundAbsent(io_data) == io_data

\* InforomWorkaround applied to every command that is not supported
InforomWorkaroundAnyCmd(io_data) ==
    IF io_data.status = NV_ERR_NOT_SUPPORTED
    THEN [io_data EXCEPT !.status = NV_ERR_OBJECT_NOT_FOUND]
    ELSE io_data

\* Workaround for some Maxwell cards not supporting reading inforom.
InforomWorkaround(io_data) ==
    IF io_data.cmd = NV2080_CTRL_CMD_GPU_GET_INFOROM_OBJECT_VERSION
       /\ io_data.status = NV_ERR_NOT_SUPPORTED
    THEN [io_data EXCEPT !.status = NV_ERR_OBJECT_NOT_FOUND]
    ELSE io_data

\* ResolveAndForward that does not keep the address it resolved
ResolveEveryTime(fn_ptr) ==
    [fn_ptr |-> None, trace |-> << <<"dlsym">>, <<"next_ioctl">> >>]

\* let next_ioctl = match IOCTL_FN_PTR { .. }; let ret = next_ioctl(..)
ResolveAndForward(fn_ptr) ==
    [fn_ptr |-> Some("next_ioctl"),
     trace |-> (IF IsSome(fn_ptr) THEN <<>> ELSE << <<"dlsym">> >>)
               \o << <<"next_ioctl">> >>]

\* FastPath without the busy-retry return
FastPathNoBusyRetry(request, ret, io_data) ==
    \/ request # NV_ESC_RM_CONTROL
    \/ ret < 0

\* the three early returns
FastPath(request, ret, io_data) ==
    \/ request # NV_ESC_RM_CONTROL
    \/ ret < 0
    \/ io_data.status = NV_ERR_BUSY_RETRY

\* the side effects up to the early return or the dispatch: the status
\* word behind argp is read only for the recognised request after a
\* successful call
FastPathTrace(request, ret) ==
    IF request # NV_ESC_RM_CONTROL \/ ret < 0 THEN <<>> ELSE << <<"read_argp">> >>

\* ReturnValue reporting plain success instead of forwarding ret
ReturnValueZero(ret, post) == IF post.ok THEN 0 ELSE -1

\* ReturnValue without the return -1 of a failed override
ReturnValueForwarded(ret, post) == ret

\* the value the hook returns once the post-pass has run
ReturnValue(ret, post) == IF post.ok THEN ret ELSE -1

\* the hook after the patches; trace holds the side effects so far and post
\* the outcome of the post-pass
Dispatch(ret, fn_ptr, trace, post) ==
    IF ~post.ok
    THEN [ret |-> ReturnValue(ret, post), io_data |-> post.io_data,
          last |-> post.last, fn_ptr |-> fn_ptr, trace |-> trace \o post.trace,
          applied |-> post.applied]
    ELSE [ret |-> ReturnValue(ret, post),
          io_data |-> InforomWorkaround(StatusCleanup(post.io_data)),
          last |-> post.last, fn_ptr |-> fn_ptr,
          trace |-> (trace \o post.trace) \o StatusCleanupTrace(post.io_data),
          applied |-> post.applied]

\* the hook once the original has been resolved and called (fwd)
Forwarded(request, ret, io_data, fwd, last, config, file) ==
    IF FastPath(request, ret, io_data)
    THEN [ret |-> ret, io_data |-> io_data, last |-> last,
          fn_ptr |-> fwd.fn_ptr,
          trace |-> fwd.trace \o FastPathTrace(request, ret),
          applied |-> <<>>]
    ELSE Dispatch(ret, fwd.fn_ptr,
                  (fwd.trace \o FastPathTrace(request, ret)) \o PrePassTrace(io_data),
                  PostPass(PrePass(io_data, config), last, file))

ioctl(request, ret, io_data, fn_ptr, last, config, file) ==
    Forwarded(request, ret, io_data, ResolveAndForward(fn_ptr), last, config, file)

(***************************************************************************)
(* The environment: what the original ioctl leaves behind, the global      *)
(* configuration read at attach time and the profile override file.        *)
(***************************************************************************)
\* another request number of the same driver (NV_ESC_RM_ALLOC)
OtherRequest == _IOWR(Nvos54ParametersLayout, NV_IOCTL_MAGIC, \H2b)

Requests == {NV_ESC_RM_CONTROL, OtherRequest}

\* return values of the original call: failure (-1), 0, positive values
MaxRet == 1
Rets == -1..MaxRet

Statuses == {NV_OK, NV_ERR_BUSY_RETRY, NV_ERR_NOT_SUPPORTED, NV_ERR_OBJECT_NOT_FOUND}

\* a command the hook has no arm for (NV2080_CTRL_CMD_GPU_GET_INFO)
CMD_UNRECOGNISED == <<\H2080, \H0101>>

\* mdev identities: "deadbeef-00ab-c0de-0123-456789abcdef" and "00000000-0000-0000-0000-000000000100"
UuidA == << <<\Hdead, \Hbeef>>, \H00ab, \Hc0de,
            <<\H01, \H23, \H45, \H67, \H89, \Hab, \Hcd, \Hef>> >>
UuidB == << <<0, 0>>, 0, 0, <<0, 0, 0, 0, 0, 0, \H01, \H00>> >>

Uuids == {UuidA, UuidB}

\* the key text an operator writes in the override file
\* "deadbeef-00ab-c0de-0123-456789abcdef"
KeyA ==
    <<100, 101, 97, 100, 98, 101, 101, 102, 45, 48, 48, 97, 98, 45, 99, 48,
      100, 101, 45, 48, 49, 50, 51, 45, 52, 53, 54, 55, 56, 57, 97, 98, 99,
      100, 101, 102>>
\* "DEADBEEF-00AB-C0DE-0123-456789ABCDEF": the same identity in upper case
KeyAUpper ==
    <<68, 69, 65, 68, 66, 69, 69, 70, 45, 48, 48, 65, 66, 45, 67, 48, 68,
      69, 45, 48, 49, 50, 51, 45, 52, 53, 54, 55, 56, 57, 65, 66, 67, 68,
      69, 70>>
\* "00000000-0000-0000-0000-000000000100"
KeyB ==
    <<48, 48, 48, 48, 48, 48, 48, 48, 45, 48, 48, 48, 48, 45, 48, 48, 48,
      48, 45, 48, 48, 48, 48, 45, 48, 48, 48, 48, 48, 48, 48, 48, 48, 49,
      48, 48>>
\* "nvidia-5"
KeyProfile5 == <<110, 118, 105, 100, 105, 97, 45, 53>>

\* n bytes of ch
Repeat(ch, n) == [k \in 1..n |-> ch]

\* a fixed array of cap elements holding text and then zeros
Padded(text, cap) == text \o Repeat(0, cap - Len(text))

\* a configuration buffer as the driver fills it
DriverConfig(vgpu_type, name) ==
    [vgpu_type |-> vgpu_type,
     vgpu_name |-> Padded(name, NVA081_VGPU_STRING_BUFFER_SIZE),
     vgpu_class |-> Padded(<<78, 86, 83>>, NVA081_VGPU_STRING_BUFFER_SIZE),
     license |-> Padded(name, NV_GRID_LICENSE_INFO_MAX_LENGTH),
     max_instance |-> 8,
     num_heads |-> 4,
     max_resolution_x |-> 4096,
     max_resolution_y |-> 2160,
     max_pixels |-> 8847360,
     frl_config |-> 60,
     cuda_enabled |-> 0,
     ecc_supported |-> 1,
     mig_instance_size |-> 0,
     multi_vgpu_supported |-> 0,
     vdev_id |-> 16,
     pdev_id |-> 17,
     fb_length |-> 1024,
     mappable_video_size |-> 256,
     fb_reservation |-> 128,
     encoder_capacity |-> 100,
     bar1_length |-> 256,
     frl_enable |-> 1,
     adapter_name |-> Padded(name, NV2080_GPU_MAX_NAME_STRING_LENGTH),
     adapter_name_unicode |-> Padded(name, NV2080_GPU_MAX_NAME_STRING_LENGTH),
     short_gpu_name_string |-> Repeat(120, NV2080_GPU_MAX_NAME_STRING_LENGTH),
     licensed_product_name |-> Padded(name, NV_GRID_LICENSE_INFO_MAX_LENGTH)]

\* "GRID P40-2Q", "T4"
DriverConfigs ==
    { DriverConfig(5, <<71, 82, 73, 68, 32, 80, 52, 48, 45, 50, 81>>),
      DriverConfig(6, <<84, 52>>) }

\* override records of the file
\* card_name "Quadro", adapter_name "Card"
ProfileRecord ==
    [gpu_type |-> 7, card_name |-> <<81, 117, 97, 100, 114, 111>>, cuda_enabled |-> 5,
     max_pixels |-> 100, adapter_name |-> <<67, 97, 114, 100>>, frl_enabled |-> 0]

\* card_name "VM-A"
MdevRecordA ==
    [card_name |-> <<86, 77, 45, 65>>, num_displays |-> 1, framebuffer |-> 2048,
     cuda_enabled |-> 1]

\* card_name "VM-B"
MdevRecordB == [card_name |-> <<86, 77, 45, 66>>, num_displays |-> 2]

\* card_name of 32 bytes: one more than the 32-byte vgpu_name can take
TooLongRecord ==
    [gpu_type |-> 9, card_name |-> Repeat(121, NVA081_VGPU_STRING_BUFFER_SIZE),
     num_displays |-> 3]

OverrideFile(kind, profile, mdev) ==
    [kind |-> kind, profile |-> profile, mdev |-> mdev]

FileNotFound == OverrideFile("NotFound", <<>>, <<>>)
FileReadError == OverrideFile("ReadError", <<>>, <<>>)
FileMalformed == OverrideFile("Malformed", <<>>, <<>>)
FileGood ==
    OverrideFile("Parsed", KeyProfile5 :> ProfileRecord,
                 (KeyA :> MdevRecordA) @@ (KeyB :> MdevRecordB))
FileUpper ==
    OverrideFile("Parsed", <<>>,
                 (KeyAUpper :> MdevRecordA) @@ (KeyB :> TooLongRecord))
FileProfileTooLong ==
    OverrideFile("Parsed", KeyProfile5 :> TooLongRecord, KeyA :> MdevRecordA)

OverrideFiles ==
    {FileNotFound, FileReadError, FileMalformed, FileGood, FileUpper,
     FileProfileTooLong}

\* config.toml as the keys it sets (none when the file is absent or empty)
ConfigTomls ==
    { <<>>,
      [unlock |-> FALSE],
      [unlock_migration |-> TRUE],
      [unlock |-> FALSE, unlock_migration |-> TRUE] }

\* Defaults::unlock, Defaults::unlock_migration
DefaultUnlock == TRUE
DefaultUnlockMigration == FALSE

\* the #[ctor] CONFIG: serde fills a missing key with its default
LoadConfig(toml) ==
    [unlock |-> IF "unlock" \in DOMAIN toml THEN toml.unlock ELSE DefaultUnlock,
     unlock_migration |-> IF "unlock_migration" \in DOMAIN toml
                          THEN toml.unlock_migration ELSE DefaultUnlockMigration]

\* params_size values around a layout size
SizesAround(expected) == {expected - 1, expected, expected + 8}

EnvelopesFor(cmd, sizes, blocks) ==
    {[cmd |-> cmd, params_size |-> sz, status |-> st, params |-> p] :
        sz \in sizes, st \in Statuses, p \in blocks}

\* 0x10de: the vendor id in the lower half of both words
PciInfo(device_id, sub_system_id) ==
    [pci_device_id |-> <<device_id, \H10de>>,
     pci_sub_system_id |-> <<sub_system_id, \H10de>>,
     pci_revision_id |-> \Ha1,
     pci_ext_device_id |-> device_id]

\* the device ids of the dispatcher runs: Pascal, Turing, none
PciBlocks == {PciInfo(d, \H11a0) : d \in {\H1b00, \H1e50, \H0010}}

StartDataBlocks == {[mdev_uuid |-> u, qemu_pid |-> 4242, vgpu_id |-> 1] : u \in Uuids}

CreateDeviceBlocks == {[vgpu_name |-> u, vgpu_type_id |-> 5, vgpu_id |-> 1] : u \in Uuids}

TypeInfoA081Blocks == {[vgpu_type |-> c.vgpu_type, vgpu_type_info |-> c] : c \in DriverConfigs}

\* a parameter block the hook has no layout for
OpaqueBlock == [opaque |-> 0]

Envelopes ==
    EnvelopesFor(NV2080_CTRL_CMD_BUS_GET_PCI_INFO,
                 SizesAround(size_of(Nv2080CtrlBusGetPciInfoParamsLayout, 1)),
                 PciBlocks)
    \cup EnvelopesFor(NV0080_CTRL_CMD_GPU_GET_VIRTUALIZATION_MODE,
                 SizesAround(size_of(Nv0080CtrlGpuGetVirtualizationModeParamsLayout, 1)),
                 {[virtualization_mode |-> 1]})
    \cup EnvelopesFor(NVA081_CTRL_CMD_VGPU_CONFIG_GET_MIGRATION_CAP,
                 SizesAround(size_of(NvA081CtrlCmdVgpuConfigGetMigrationCapParamsLayout, 1)),
                 {[migration_cap |-> 0]})
    \cup EnvelopesFor(NV0000_CTRL_CMD_VGPU_GET_START_DATA,
                 SizesAround(size_of(Nv0000CtrlVgpuGetStartDataParamsLayout, 1)),
                 StartDataBlocks)
    \cup EnvelopesFor(NV0000_CTRL_CMD_VGPU_CREATE_DEVICE,
                 SizesAround(size_of(Nv0000CtrlVgpuCreateDeviceParamsLayout, 1)),
                 CreateDeviceBlocks)
    \cup EnvelopesFor(NVA081_CTRL_CMD_VGPU_CONFIG_GET_VGPU_TYPE_INFO,
                 SizesAround(size_of(NvA081CtrlVgpuConfigGetVgpuTypeInfoParamsLayout, 1))
                 \cup {TYPE_INFO_SIZE_V17, TYPE_INFO_SIZE_V18},
                 TypeInfoA081Blocks)
    \cup EnvelopesFor(NVA082_CTRL_CMD_HOST_VGPU_DEVICE_GET_VGPU_TYPE_INFO,
                 SizesAround(size_of(NvA082CtrlCmdHostVgpuDeviceGetVgpuTypeInfoParamsLayout, 1)),
                 DriverConfigs)
    \cup EnvelopesFor(CMD_A0820104, {0}, {OpaqueBlock})
    \cup EnvelopesFor(NV9096_CTRL_CMD_GET_ZBC_CLEAR_TABLE, {0}, {OpaqueBlock})
    \cup EnvelopesFor(NV2080_CTRL_CMD_GPU_GET_INFOROM_OBJECT_VERSION, {0}, {OpaqueBlock})
    \cup EnvelopesFor(CMD_UNRECOGNISED, {0}, {OpaqueBlock})

(***************************************************************************)
(* State.                                                                  *)
(***************************************************************************)
VARIABLES
    configToml,      \* /etc/vgpu_unlock/config.toml when the library is loaded
    CONFIG,          \* the #[ctor] static: [unlock, unlock_migration]
    LAST_MDEV_UUID,  \* static Mutex<Option<Uuid>>
    IOCTL_FN_PTR,    \* static mut Option<fn>: the resolved original ioctl
    overrideFile,    \* the profile override file on disk
    call,            \* the invocation that has just returned, if any: what
                     \* the original call produced and the state at entry
    result           \* what the hook made of it: return value, buffer,
                     \* side effects

vars == <<configToml, CONFIG, LAST_MDEV_UUID, IOCTL_FN_PTR, overrideFile, call, result>>

Init ==
    /\ configToml \in ConfigTomls
    /\ CONFIG = LoadConfig(configToml)
    /\ LAST_MDEV_UUID = None
    /\ IOCTL_FN_PTR = None
    /\ overrideFile \in OverrideFiles
    /\ call = None
    /\ result = None

\* one invocation of the hook, from entry to return
Ioctl(request, ret, io_data) ==
    /\ call = None
    /\ \E r \in {ioctl(request, ret, io_data, IOCTL_FN_PTR, LAST_MDEV_UUID,
                     CONFIG, overrideFile)} :
           /\ call' = Some([request |-> request, ret |-> ret, io_data |-> io_data,
                            last |-> LAST_MDEV_UUID, fn_ptr |-> IOCTL_FN_PTR,
                            file |-> overrideFile])
           /\ result' = Some([ret |-> r.ret, io_data |-> r.io_data,
                              trace |-> r.trace, applied |-> r.applied])
           /\ LAST_MDEV_UUID' = r.last
           /\ IOCTL_FN_PTR' = r.fn_ptr
    /\ UNCHANGED <<configToml, CONFIG, overrideFile>>

\* the caller takes the return value and reuses its buffer
CallerResumes ==
    /\ call # None
    /\ call' = None
    /\ result' = None
    /\ UNCHANGED <<configToml, CONFIG, LAST_MDEV_UUID, IOCTL_FN_PTR, overrideFile>>

\* the operator replaces, removes or breaks the override file
WriteOverrideFile(f) ==
    /\ call = None
    /\ f # overrideFile
    /\ overrideFile' = f
    /\ UNCHANGED <<configToml, CONFIG, LAST_MDEV_UUID, IOCTL_FN_PTR, call, result>>

\* the next invocation of the hook, made once the one before has returned
\* and the caller has gone on
IoctlAgain(request, ret, io_data) ==
    /\ Len(call) = 1
    /\ \E r \in {ioctl(request, ret, io_data, IOCTL_FN_PTR, LAST_MDEV_UUID,
                     CONFIG, overrideFile)} :
           /\ call' = <<[request |-> request, ret |-> ret, io_data |-> io_data,
                         last |-> LAST_MDEV_UUID, fn_ptr |-> IOCTL_FN_PTR,
                         file |-> overrideFile]>> \o call
           /\ result' = <<[ret |-> r.ret, io_data |-> r.io_data,
                           trace |-> r.trace, applied |-> r.applied]>> \o result
           /\ LAST_MDEV_UUID' = r.last
           /\ IOCTL_FN_PTR' = r.fn_ptr
    /\ UNCHANGED <<configToml, CONFIG, overrideFile>>

Next ==
    \/ /\ call = None
       /\ \E request \in Requests, ret \in Rets, io_data \in Envelopes :
           Ioctl(request, ret, io_data)
    \/ CallerResumes
    \/ \E f \in OverrideFiles : WriteOverrideFile(f)

Spec == Init /\ [][Next]_vars

(***************************************************************************)
(* The PCI table over every 16-bit device id: the hook on PCI-info calls   *)
(* only, under the default configuration.                                  *)
(***************************************************************************)
\* subsystem ids: zero, one of the forced constants, an arbitrary one
\* the first and last device id of every arm of the match, and one id of
\* the default arm
PciRangeEnds ==
    {\H1340, \H13bd, \H174d, \H179c, \H13c0, \H1436, \H1617, \H1667, \H17c2,
     \H17fd, \H15f0, \H15f1, \H1b00, \H1d56, \H1725, \H172f, \H1d81, \H1dba,
     \H1e02, \H1ff9, \H2182, \H21d1, \H2200, \H2600, \H0010}

\* every device id is asked with one subsystem id, the ends of the arms with
\* the lowest, the highest and the two forced ones as well
PciSubSystemIds(d) ==
    {\Hfedc} \cup (IF d \in PciRangeEnds THEN {0, \H1160, \H12ba, \Hffff} ELSE {})

InitPci ==
    /\ configToml = <<>>
    /\ CONFIG = LoadConfig(configToml)
    /\ LAST_MDEV_UUID = None
    /\ IOCTL_FN_PTR = None
    /\ overrideFile = FileNotFound
    /\ call = None
    /\ result = None

IoctlPci ==
    /\ call = None
    /\ \E d \in 0..(Pow2(16) - 1) : \E sub \in PciSubSystemIds(d) :
        Ioctl(NV_ESC_RM_CONTROL, 0,
              [cmd |-> NV2080_CTRL_CMD_BUS_GET_PCI_INFO,
               params_size |-> size_of(Nv2080CtrlBusGetPciInfoParamsLayout, 1),
               status |-> NV_OK,
               params |-> PciInfo(d, sub)])

\* lower halves, revision ids and extended device ids other than those of
\* PciInfo
PciFrames ==
    {[low |-> <<0, 0>>, rev |-> 0, ext |-> 0],
     [low |-> <<\Hffff, \H8086>>, rev |-> \Hff, ext |-> \Hffff],
     [low |-> <<\H1b38, \H1e30>>, rev |-> \H10de, ext |-> \H13bd]}

\* a PCI-info call at the ends of the ranges, with the rest of the block
\* varied
IoctlPciFrame ==
    /\ call = None
    /\ \E d \in PciRangeEnds, f \in PciFrames :
        Ioctl(NV_ESC_RM_CONTROL, 0,
              [cmd |-> NV2080_CTRL_CMD_BUS_GET_PCI_INFO,
               params_size |-> size_of(Nv2080CtrlBusGetPciInfoParamsLayout, 1),
               status |-> NV_OK,
               params |-> [pci_device_id |-> <<d, f.low[1]>>,
                           pci_sub_system_id |-> <<\Hfedc, f.low[2]>>,
                           pci_revision_id |-> f.rev,
                           pci_ext_device_id |-> f.ext]])

\* the block the hook returned goes through the hook once more
IoctlPciAgain ==
    /\ Len(call) = 1
    /\ IoctlAgain(NV_ESC_RM_CONTROL, 0, result[1].io_data)

NextPci == IoctlPci \/ IoctlPciFrame \/ IoctlPciAgain \/ CallerResumes

SpecPci == InitPci /\ [][NextPci]_vars

(***************************************************************************)
(* The override engine on its own: apply_profile_override is handed a      *)
(* configuration buffer and one override record, and once more the same    *)
(* record on the buffer it left (handle_profile_override calls it at       *)
(* lib.rs:548 and again at lib.rs:556 on the same buffer).  call holds the *)
(* buffer and the record, result the outcomes of the applications so far.  *)
(***************************************************************************)
\* values of the Option<u32> fields of class bool: 0..MaxBoolValue and the
\* largest value the model's integers hold
MaxBoolValue == 5
BoolValues == (0..MaxBoolValue) \cup {2147483647}

BoolSources == {"cuda_enabled", "ecc_supported", "multi_vgpu_supported", "frl_enabled"}

\* the Option<String> fields and the capacity of the byte field each goes to
TextSources ==
    { <<"card_name", NVA081_VGPU_STRING_BUFFER_SIZE>>,
      <<"vgpu_type", NVA081_VGPU_STRING_BUFFER_SIZE>>,
      <<"features", NV_GRID_LICENSE_INFO_MAX_LENGTH>>,
      <<"adapter_name", NV2080_GPU_MAX_NAME_STRING_LENGTH>>,
      <<"short_gpu_name", NV2080_GPU_MAX_NAME_STRING_LENGTH>>,
      <<"license_type", NV_GRID_LICENSE_INFO_MAX_LENGTH>> }

\* texts around a capacity: empty; 'a' repeated to cap - 2, cap - 1 and cap
\* bytes; the same lengths reached with a two-byte 'e acute' in front; a
\* text with U+0000 in it ("a\u0000b"); a four-byte and a three-byte scalar
TextsAround(cap) ==
    { <<>>,
      Repeat(97, cap - 2), Repeat(97, cap - 1), Repeat(97, cap),
      <<233>> \o Repeat(97, cap - 3), <<233>> \o Repeat(97, cap - 2),
      <<97, 0, 98>>,
      <<128512, 8364>> }

\* gpu_type, two bool fields and a number, then an adapter_name of 64 bytes
\* for the 64-byte field, then two more texts
LateFailureRecord ==
    [gpu_type |-> 11, cuda_enabled |-> 5, framebuffer |-> 4096, frl_enabled |-> 7,
     adapter_name |-> Repeat(122, NV2080_GPU_MAX_NAME_STRING_LENGTH),
     short_gpu_name |-> <<115>>, license_type |-> <<76>>]

\* adapter_name texts around the 64 units of adapter_name_unicode: 63 and 64
\* units of one unit each, 63 scalars of two bytes, 63 and 64 units made of
\* surrogate pairs, a text with U+0000 in it, and short ones
WideTexts ==
    { <<>>, <<128512, 8364>>, <<97, 0, 98>>,
      Repeat(97, NV2080_GPU_MAX_NAME_STRING_LENGTH - 1),
      Repeat(97, NV2080_GPU_MAX_NAME_STRING_LENGTH),
      Repeat(233, NV2080_GPU_MAX_NAME_STRING_LENGTH - 1),
      Repeat(128512, 31) \o <<97>>,
      Repeat(128512, 32) }

OverrideRecords ==
    {[config_field \in {f} |-> v] : f \in BoolSources, v \in BoolValues}
    \cup UNION {{[config_field \in {src[1]} |-> t] : t \in TextsAround(src[2])} :
                   src \in TextSources}
    \cup {ProfileRecord, MdevRecordA, MdevRecordB, TooLongRecord, LateFailureRecord}

InitApply ==
    /\ configToml = <<>>
    /\ CONFIG = LoadConfig(configToml)
    /\ LAST_MDEV_UUID = None
    /\ IOCTL_FN_PTR = None
    /\ overrideFile = FileNotFound
    /\ call = None
    /\ result = None

\* apply_profile_override(config, &vgpu_type, config_override)
ApplyOverride(config, config_override) ==
    /\ call = None
    /\ call' = Some([class |-> "all", config |-> config,
                     config_override |-> config_override])
    /\ result' = <<apply_profile_override(config, config_override)>>
    /\ UNCHANGED <<configToml, CONFIG, LAST_MDEV_UUID, IOCTL_FN_PTR, overrideFile>>

\* the wide_str class of handle_override on its own, for adapter_name and
\* adapter_name_unicode: its length check, its write and its log line
OverrideWideStr(config, value) ==
    /\ call = None
    /\ call' = Some([class |-> "wide_str", config |-> config,
                     config_override |-> [config_field \in {"adapter_name"} |-> value]])
    /\ \E r \in {handle_override("wide_str", config, "adapter_name_unicode", value)} :
           result' = << [ok |-> r.ok, config |-> r.config,
                         log |-> << <<IF r.ok THEN "patch" ELSE "too_long",
                                      "adapter_name_unicode">> >>] >>
    /\ UNCHANGED <<configToml, CONFIG, LAST_MDEV_UUID, IOCTL_FN_PTR, overrideFile>>

\* the same record applied once more to the buffer the first call left
ApplyAgain ==
    /\ call # None
    /\ call[1].class = "all"
    /\ Len(result) = 1
    /\ result' = Append(result, apply_profile_override(result[1].config,
                                                       call[1].config_override))
    /\ UNCHANGED <<configToml, CONFIG, LAST_MDEV_UUID, IOCTL_FN_PTR, overrideFile,
                   call>>

NextApply ==
    \/ /\ call = None
       /\ \E config \in DriverConfigs, config_override \in OverrideRecords :
              ApplyOverride(config, config_override)
    \/ /\ call = None
       /\ \E config \in DriverConfigs, value \in WideTexts :
              OverrideWideStr(config, value)
    \/ ApplyAgain
    \/ CallerResumes

SpecApply == InitApply /\ [][NextApply]_vars

(***************************************************************************)
(* Two invocations in a row with the override file rewritten in between.   *)
(* call and result hold the invocations of the run, the latest first.      *)
(***************************************************************************)
\* accepted VM-start calls and accepted type-info queries of both classes
ReloadEnvelopes ==
    { e \in
        EnvelopesFor(NV0000_CTRL_CMD_VGPU_GET_START_DATA,
                     {size_of(Nv0000CtrlVgpuGetStartDataParamsLayout, 1)},
                     StartDataBlocks)
        \cup EnvelopesFor(NVA081_CTRL_CMD_VGPU_CONFIG_GET_VGPU_TYPE_INFO,
                     {size_of(NvA081CtrlVgpuConfigGetVgpuTypeInfoParamsLayout, 1)},
                     TypeInfoA081Blocks)
        \cup EnvelopesFor(NVA082_CTRL_CMD_HOST_VGPU_DEVICE_GET_VGPU_TYPE_INFO,
                     {size_of(NvA082CtrlCmdHostVgpuDeviceGetVgpuTypeInfoParamsLayout, 1)},
                     DriverConfigs) :
        e.status = NV_OK }

\* the operator replaces, removes, breaks or repairs the override file
\* between two invocations
RewriteBetween(f) ==
    /\ Len(call) = 1
    /\ f # overrideFile
    /\ overrideFile' = f
    /\ UNCHANGED <<configToml, CONFIG, LAST_MDEV_UUID, IOCTL_FN_PTR, call, result>>

NextReload ==
    \/ /\ call = None
       /\ \E ret \in 0..MaxRet, io_data \in ReloadEnvelopes :
              Ioctl(NV_ESC_RM_CONTROL, ret, io_data)
    \/ /\ Len(call) = 1
       /\ \E ret \in 0..MaxRet, io_data \in ReloadEnvelopes :
              IoctlAgain(NV_ESC_RM_CONTROL, ret, io_data)
    \/ \E f \in OverrideFiles : RewriteBetween(f)
    \/ CallerResumes

SpecReload == Init /\ [][NextReload]_vars

(***************************************************************************)
(* handle_profile_override of the build with feature "proxmox", over       *)
(* remembered identities with zero and non-zero segments.                  *)
(***************************************************************************)
\* last segments: "000000000100", "0000000001ff" (no decimal number),
\* "990000000100", "000000000000"
VmLastSegments ==
    { <<0, 0, 0, 0, \H01, \H00>>, <<0, 0, 0, 0, \H01, \Hff>>,
      <<\H99, 0, 0, 0, \H01, \H00>>, <<0, 0, 0, 0, 0, 0>> }

\* identities with each of the segments before the last zero and non-zero
VmUuids ==
    { <<g1, g2, g3, <<b1, b2>> \o tail>> :
        g1 \in {<<0, 0>>, <<0, 1>>, <<\H8000, 0>>},
        g2 \in {0, 1}, g3 \in {0, \H8000},
        b1 \in {0, 1}, b2 \in {0, \H80},
        tail \in VmLastSegments }

\* card_name "VM-100"
VmRecord100 == [card_name |-> <<86, 77, 45, 49, 48, 48>>, num_displays |-> 3]
VmRecordBig == [num_displays |-> 2, max_pixels |-> 99]

\* the table vm: "100", "0" and "990000000100"
VmTable ==
    (<<49, 48, 48>> :> VmRecord100) @@ (<<48>> :> VmRecord100)
    @@ (<<57, 57, 48, 48, 48, 48, 48, 48, 48, 49, 48, 48>> :> VmRecordBig)

VmFiles == {FileGood, FileProfileTooLong, FileNotFound}

\* one type-info query's call of handle_profile_override with mdev_uuid
\* remembered
HandleProfileOverrideProxmox(config, mdev_uuid, file, vm) ==
    /\ call = None
    /\ call' = Some([config |-> config, last |-> Some(mdev_uuid), file |-> file,
                     vm |-> vm])
    /\ \E st \in {handle_profile_override_proxmox(config, Some(mdev_uuid), file, vm)} :
           result' = Some([vmid |-> uuid_to_vmid(mdev_uuid), result |-> st.result,
                           config |-> st.config, applied |-> st.applied])
    /\ UNCHANGED <<configToml, CONFIG, LAST_MDEV_UUID, IOCTL_FN_PTR, overrideFile>>

NextVmid ==
    \/ /\ call = None
       /\ \E config \in DriverConfigs, mdev_uuid \in VmUuids, file \in VmFiles :
              HandleProfileOverrideProxmox(config, mdev_uuid, file, VmTable)
    \/ CallerResumes

SpecVmid == InitApply /\ [][NextVmid]_vars

(***************************************************************************)
(* The number decoder on texts made of spaces, a decimal number, spaces, a *)
(* unit and spaces.                                                        *)
(***************************************************************************)
MaxSpaces == 1

\* "0", "7", "1234", 2^53 - 1, 2^53 + 1, a number below 2^53 whose product
\* with 1000 takes more than 53 bits, u64::MAX, u64::MAX + 1
HumanDigits ==
    { <<48>>, <<55>>, <<49, 50, 51, 52>>,
      <<57, 48, 48, 55, 49, 57, 57, 50, 53, 52, 55, 52, 48, 57, 57, 49>>,
      <<57, 48, 48, 55, 49, 57, 57, 50, 53, 52, 55, 52, 48, 57, 57, 51>>,
      <<51, 48, 48, 50, 51, 57, 57, 55, 53, 49, 53, 56, 48, 51, 51, 49>>,
      <<49, 56, 52, 52, 54, 55, 52, 52, 48, 55, 51, 55, 48, 57, 53, 53, 49, 54, 49, 53>>,
      <<49, 56, 52, 52, 54, 55, 52, 52, 48, 55, 51, 55, 48, 57, 53, 53, 49, 54, 49, 54>> }

\* "kB", "KB", "MB", "GB", "TB", "KiB", "MiB", "GiB", "TiB"
KnownUnits ==
    { <<107, 66>>, <<75, 66>>, <<77, 66>>, <<71, 66>>, <<84, 66>>,
      <<75, 105, 66>>, <<77, 105, 66>>, <<71, 105, 66>>, <<84, 105, 66>> }

\* "kb", "B", "XB", "kiB"
UnknownUnits == { <<107, 98>>, <<66>>, <<88, 66>>, <<107, 105, 66>> }

HumanText(digits, unit, lead, mid, trail) ==
    Repeat(32, lead) \o digits
    \o (IF unit = <<>> THEN <<>> ELSE Repeat(32, mid) \o unit)
    \o Repeat(32, trail)

InitHuman == InitApply

\* visit_str(v) for the text of a number, with or without a unit
Deserialize(digits, unit, lead, mid, trail) ==
    /\ call = None
    /\ call' = Some([v |-> HumanText(digits, unit, lead, mid, trail),
                     digits |-> digits, unit |-> unit])
    /\ result' = Some(visit_str(HumanText(digits, unit, lead, mid, trail)))
    /\ UNCHANGED <<configToml, CONFIG, LAST_MDEV_UUID, IOCTL_FN_PTR, overrideFile>>

NextHuman ==
    \/ /\ call = None
       /\ \E digits \in HumanDigits \cup {<<>>},
             unit \in KnownUnits \cup UnknownUnits \cup {<<>>},
             lead \in 0..MaxSpaces, mid \in 0..MaxSpaces, trail \in 0..MaxSpaces :
              Deserialize(digits, unit, lead, mid, trail)
    \/ CallerResumes

SpecHuman == InitHuman /\ [][NextHuman]_vars

(***************************************************************************)
(* Properties.                                                             *)
(***************************************************************************)
(* Hook invocations on several threads, one statement at a time.  call is  *)
(* each thread's position in the hook, result the state of the mutex       *)
(* around LAST_MDEV_UUID (parking_lot::Mutex, lib.rs 70).  An invocation   *)
(* is of class "store" (an accepted start-data or create-device call),     *)
(* "query" (an accepted type-info query) or "other" (anything else).       *)
(***************************************************************************)
ThreadCount == 2
Threads == 1..ThreadCount

Idle == [class |-> "none", pc |-> "idle", uuid |-> None, mdev_uuid |-> None]

\* the statement that follows pc in an invocation of the class when pc does
\* not return early; a MutexGuard is a temporary of the statement that
\* locks, dropped when that statement ends
ProgramOrderGuardKept(class, pc) ==
    CASE pc = "next_ioctl" -> (IF class = "store" THEN "info"
                               ELSE IF class = "query" THEN "read_to_string"
                               ELSE "return")
      [] pc = "info" -> "lock"
      [] pc = "read_to_string" -> "from_str"
      [] pc = "from_str" -> "lock"
      [] pc = "lock" -> (IF class = "store" THEN "store" ELSE "clone")
      [] pc = "store" -> "unlock"
      [] pc = "clone" -> "apply"
      [] pc = "apply" -> "unlock"
      [] pc = "unlock" -> "return"
      [] pc = "return" -> "idle"

ProgramOrder(class, pc) ==
    CASE pc = "next_ioctl" -> (IF class = "store" THEN "info"
                               ELSE IF class = "query" THEN "read_to_string"
                               ELSE "return")
      [] pc = "info" -> "lock"
      [] pc = "read_to_string" -> "from_str"
      [] pc = "from_str" -> "lock"
      [] pc = "lock" -> (IF class = "store" THEN "store" ELSE "clone")
      [] pc = "store" -> "unlock"
      [] pc = "clone" -> "unlock"
      [] pc = "unlock" -> (IF class = "store" THEN "return" ELSE "apply")
      [] pc = "apply" -> "return"
      [] pc = "return" -> "idle"

\* thread t at pc goes on to the next statement
Goes(t, pc) ==
    /\ call[t].pc = pc
    /\ call' = [call EXCEPT ![t].pc = ProgramOrder(call[t].class, pc)]

\* thread t at pc returns early from handle_profile_override when stop
GoesUnless(t, pc, stop) ==
    /\ call[t].pc = pc
    /\ call' = [call EXCEPT
                   ![t].pc = IF stop THEN "return"
                             ELSE ProgramOrder(call[t].class, pc)]

InitThreads ==
    /\ configToml = <<>>
    /\ CONFIG = LoadConfig(configToml)
    /\ LAST_MDEV_UUID = None
    /\ IOCTL_FN_PTR = None
    /\ overrideFile \in {FileGood, FileNotFound, FileMalformed}
    /\ call = [t \in Threads |-> Idle]
    /\ result = [owner |-> None]

\* thread t enters the hook; uuid is the identity a "store" call carries
Enter(t, class, uuid) ==
    /\ call[t].pc = "idle"
    /\ call' = [call EXCEPT ![t] = [class |-> class, pc |-> "next_ioctl",
                                    uuid |-> uuid, mdev_uuid |-> None]]
    /\ UNCHANGED <<configToml, CONFIG, LAST_MDEV_UUID, IOCTL_FN_PTR,
                   overrideFile, result>>

\* let ret = next_ioctl(fd, request, argp), and the dispatch on the result
Forward(t) ==
    /\ Goes(t, "next_ioctl")
    /\ UNCHANGED <<configToml, CONFIG, LAST_MDEV_UUID, IOCTL_FN_PTR,
                   overrideFile, result>>

\* info!("{:#?}", config): a log write
Info(t) ==
    /\ Goes(t, "info")
    /\ UNCHANGED <<configToml, CONFIG, LAST_MDEV_UUID, IOCTL_FN_PTR,
                   overrideFile, result>>

\* load_overrides(): a file read, and a log write when it fails
ReadToString(t) ==
    /\ GoesUnless(t, "read_to_string", ~load_overrides(overrideFile).ok)
    /\ UNCHANGED <<configToml, CONFIG, LAST_MDEV_UUID, IOCTL_FN_PTR,
                   overrideFile, result>>

\* toml::from_str(&config_overrides): the parse, and a log write when it
\* fails
FromStr(t) ==
    /\ GoesUnless(t, "from_str", overrideFile.kind = "Malformed")
    /\ UNCHANGED <<configToml, CONFIG, LAST_MDEV_UUID, IOCTL_FN_PTR,
                   overrideFile, result>>

\* LAST_MDEV_UUID.lock(): blocks until no thread owns the mutex
Lock(t) ==
    /\ result.owner = None
    /\ Goes(t, "lock")
    /\ result' = [owner |-> Some(t)]
    /\ UNCHANGED <<configToml, CONFIG, LAST_MDEV_UUID, IOCTL_FN_PTR, overrideFile>>

\* *guard = Some(uuid)
Store(t) ==
    /\ Goes(t, "store")
    /\ LAST_MDEV_UUID' = call[t].uuid
    /\ UNCHANGED <<configToml, CONFIG, IOCTL_FN_PTR, overrideFile, result>>

\* let mdev_uuid = guard.clone()
Clone(t) ==
    /\ call[t].pc = "clone"
    /\ call' = [call EXCEPT ![t].pc = ProgramOrder(call[t].class, "clone"),
                            ![t].mdev_uuid = Some(LAST_MDEV_UUID)]
    /\ UNCHANGED <<configToml, CONFIG, LAST_MDEV_UUID, IOCTL_FN_PTR,
                   overrideFile, result>>

\* the MutexGuard is dropped
Unlock(t) ==
    /\ result.owner = Some(t)
    /\ Goes(t, "unlock")
    /\ result' = [owner |-> None]
    /\ UNCHANGED <<configToml, CONFIG, LAST_MDEV_UUID, IOCTL_FN_PTR, overrideFile>>

\* the table lookups, their log writes and apply_profile_override
Apply(t) ==
    /\ Goes(t, "apply")
    /\ UNCHANGED <<configToml, CONFIG, LAST_MDEV_UUID, IOCTL_FN_PTR,
                   overrideFile, result>>

\* the hook returns to its caller
Return(t) ==
    /\ call[t].pc = "return"
    /\ call' = [call EXCEPT ![t] = Idle]
    /\ UNCHANGED <<configToml, CONFIG, LAST_MDEV_UUID, IOCTL_FN_PTR,
                   overrideFile, result>>

\* a step of a thread that is inside the hook
Progress ==
    \E t \in Threads :
        \/ Forward(t)
        \/ Info(t)
        \/ ReadToString(t)
        \/ FromStr(t)
        \/ Lock(t)
        \/ Store(t)
        \/ Clone(t)
        \/ Unlock(t)
        \/ Apply(t)
        \/ Return(t)

NextThreads ==
    \/ \E t \in Threads, uuid \in Uuids : Enter(t, "store", Some(uuid))
    \/ \E t \in Threads, class \in {"query", "other"} : Enter(t, class, None)
    \/ \E t \in Threads : Forward(t)
    \/ \E t \in Threads : Info(t)
    \/ \E t \in Threads : ReadToString(t)
    \/ \E t \in Threads : FromStr(t)
    \/ \E t \in Threads : Lock(t)
    \/ \E t \in Threads : Store(t)
    \/ \E t \in Threads : Clone(t)
    \/ \E t \in Threads : Unlock(t)
    \/ \E t \in Threads : Apply(t)
    \/ \E t \in Threads : Return(t)

SpecThreads == InitThreads /\ [][NextThreads]_vars

(***************************************************************************)
Returned == call # None
TheCall == call[1]
TheResult == result[1]

SeqRange(seq) == {seq[k] : k \in 1..Len(seq)}
Count(seq, e) == Cardinality({k \in 1..Len(seq) : seq[k] = e})

\* the hook went past its three early returns
Dispatched ==
    /\ Returned
    /\ TheCall.request = NV_ESC_RM_CONTROL
    /\ TheCall.ret >= 0
    /\ TheCall.io_data.status # NV_ERR_BUSY_RETRY

TypeInfoCmds ==
    {NVA081_CTRL_CMD_VGPU_CONFIG_GET_VGPU_TYPE_INFO,
     NVA082_CTRL_CMD_HOST_VGPU_DEVICE_GET_VGPU_TYPE_INFO}

StoreCmds == {NV0000_CTRL_CMD_VGPU_GET_START_DATA, NV0000_CTRL_CMD_VGPU_CREATE_DEVICE}

\* the sizes each recognised command is accepted with, as the layout tests
\* and the dispatcher state them: 16, 4, 1, 0x420, 0x20, 0x1360 / 5096 /
\* 5232, 0x738
AcceptedSizes(cmd) ==
    CASE cmd = NV2080_CTRL_CMD_BUS_GET_PCI_INFO -> {16}
      [] cmd = NV0080_CTRL_CMD_GPU_GET_VIRTUALIZATION_MODE -> {4}
      [] cmd = NVA081_CTRL_CMD_VGPU_CONFIG_GET_MIGRATION_CAP -> {1}
      [] cmd = NV0000_CTRL_CMD_VGPU_GET_START_DATA -> {\H420}
      [] cmd = NV0000_CTRL_CMD_VGPU_CREATE_DEVICE -> {\H20}
      [] cmd = NVA081_CTRL_CMD_VGPU_CONFIG_GET_VGPU_TYPE_INFO -> {\H1360, 5096, 5232}
      [] cmd = NVA082_CTRL_CMD_HOST_VGPU_DEVICE_GET_VGPU_TYPE_INFO -> {\H738}
      [] OTHER -> {}

SizeAccepted == TheCall.io_data.params_size \in AcceptedSizes(TheCall.io_data.cmd)

\* a type-info query the post-pass hands to handle_profile_override
TypeInfoQuery ==
    /\ Dispatched
    /\ TheCall.io_data.cmd \in TypeInfoCmds
    /\ TheCall.io_data.status = NV_OK
    /\ SizeAccepted

\* a VM-start or create-device call the post-pass takes the identity from
StoreCall ==
    /\ Dispatched
    /\ TheCall.io_data.cmd \in StoreCmds
    /\ TheCall.io_data.status = NV_OK
    /\ SizeAccepted

\* the identity a VM-start or create-device block carries
BlockIdentity(io_data) ==
    IF io_data.cmd = NV0000_CTRL_CMD_VGPU_GET_START_DATA
    THEN io_data.params.mdev_uuid
    ELSE io_data.params.vgpu_name

\* the configuration buffer inside a type-info parameter block
ConfigOf(io_data) ==
    IF io_data.cmd = NVA081_CTRL_CMD_VGPU_CONFIG_GET_VGPU_TYPE_INFO
    THEN io_data.params.vgpu_type_info
    ELSE io_data.params

\* the hyphenated lower-case hex text of the identities, written out
IdentityText == (UuidA :> KeyA) @@ (UuidB :> KeyB)

\* the line "Failed to apply profile override" was logged
OverrideFailed == <<"error", "override">> \in SeqRange(TheResult.trace)

(***************************************************************************)
(* C1: every invocation of the hook forwards to the original ioctl exactly *)
(* once, before it reads or modifies the argument buffer, and returns the  *)
(* original's return value in every case except an override application    *)
(* that fails during a type-info query (then -1).                          *)
(***************************************************************************)
C1_ForwardsOnceThenReturnsOriginal ==
    Returned =>
        LET t == TheResult.trace
        IN  /\ Count(t, <<"next_ioctl">>) = 1
            /\ \A k \in 1..Len(t) :
                   t[k] # <<"dlsym">> =>
                       \E j \in 1..k : t[j] = <<"next_ioctl">>
            /\ TheResult.io_data # TheCall.io_data =>
                   <<"read_argp">> \in SeqRange(t)
            /\ TheResult.ret # TheCall.ret =>
                   TypeInfoQuery /\ OverrideFailed /\ TheResult.ret = -1

\* a dispatched call that changed the buffer and returned the original's 1
C1_Witness ==
    /\ Dispatched
    /\ TheCall.ret = 1
    /\ TheResult.ret = 1
    /\ TheResult.io_data # TheCall.io_data
    /\ TheResult.trace[1] = <<"next_ioctl">>

(***************************************************************************)
(* C2: when the request is not NV_ESC_RM_CONTROL, or the original call     *)
(* returned a negative value, or the envelope status is NV_ERR_BUSY_RETRY, *)
(* the hook returns the original's return value and leaves the envelope    *)
(* status, the parameter block and LAST_MDEV_UUID unchanged, for every     *)
(* command code.                                                           *)
(***************************************************************************)
C2_FastPathsChangeNothing ==
    Returned
    /\ (\/ TheCall.request # NV_ESC_RM_CONTROL
        \/ TheCall.ret < 0
        \/ TheCall.io_data.status = 3)
    => /\ TheResult.ret = TheCall.ret
       /\ TheResult.io_data.status = TheCall.io_data.status
       /\ TheResult.io_data.params = TheCall.io_data.params
       /\ LAST_MDEV_UUID = TheCall.last

\* a busy-retry answer to a command whose failures are otherwise laundered
C2_Witness ==
    /\ Returned
    /\ TheCall.request = NV_ESC_RM_CONTROL
    /\ TheCall.ret >= 0
    /\ TheCall.io_data.status = 3
    /\ TheCall.io_data.cmd = NV9096_CTRL_CMD_GET_ZBC_CLEAR_TABLE
    /\ TheResult.io_data.status = 3

(***************************************************************************)
(* C3: after a type-info query (0xa0810103 or 0xa0820102, status OK,       *)
(* accepted size) has been processed, LAST_MDEV_UUID is empty.  Stated     *)
(* for the queries that got as far as reading the identity (the override   *)
(* file was read and parsed).                                              *)
(***************************************************************************)
C3_TypeInfoQueryConsumesIdentity ==
    TypeInfoQuery /\ TheCall.file.kind = "Parsed" => LAST_MDEV_UUID = None

\* "nvidia-<vgpu type>" of the driver's types, written out
ProfileKeyText == (5 :> KeyProfile5) @@ (6 :> <<110, 118, 105, 100, 105, 97, 45, 54>>)

\* the record holds a text value whose UTF-8 form does not fit the field it
\* goes to (capacity - 1 bytes)
TooLong(record, config) ==
    \E k \in 1..Len(FieldTable) :
        /\ FieldTable[k][1] = "str"
        /\ FieldTable[k][2] \in DOMAIN record
        /\ Len(as_bytes(record[FieldTable[k][2]])) > Len(config[FieldTable[k][3]]) - 1

\* the record in the profile table under the name of the query's type fails
ProfileRecordFails ==
    LET key == ProfileKeyText[ConfigOf(TheCall.io_data).vgpu_type]
    IN  /\ key \in DOMAIN TheCall.file.profile
        /\ TooLong(TheCall.file.profile[key], ConfigOf(TheCall.io_data))

\* the mdev table holds a record under the text of the remembered identity
MdevRecordExists ==
    /\ IsSome(TheCall.last)
    /\ TheCall.file.kind = "Parsed"
    /\ IdentityText[Unwrap(TheCall.last)] \in DOMAIN TheCall.file.mdev

TheMdevRecord == TheCall.file.mdev[IdentityText[Unwrap(TheCall.last)]]

\* the returned buffer holds the record's numbers and texts
HoldsValuesOf(record) ==
    LET config == ConfigOf(TheResult.io_data)
    IN  \A k \in 1..Len(FieldTable) :
            LET class == FieldTable[k][1]
                source == FieldTable[k][2]
                target == FieldTable[k][3]
            IN  source \in DOMAIN record =>
                    CASE class = "copy" -> config[target] = record[source]
                      [] class = "str" ->
                            config[target] =
                                Padded(as_bytes(record[source]), Len(config[target]))
                      [] OTHER -> TRUE

\* the mdev record was looked up under the identity's text and applied
MdevRecordApplied ==
    /\ <<"mdev", IdentityText[Unwrap(TheCall.last)]>> \in SeqRange(TheResult.applied)
    /\ IF TooLong(TheMdevRecord, ConfigOf(TheCall.io_data))
       THEN TheResult.ret = -1
       ELSE TheResult.ret = TheCall.ret /\ HoldsValuesOf(TheMdevRecord)

(***************************************************************************)
(* C4 as stated: after a VM-start (0xc01) or create-device (0xc02) call    *)
(* with status OK and matching size stores identity A, the next accepted   *)
(* type-info query applies the record the mdev table holds under A's       *)
(* hyphenated lower-case hex text, whenever such a record exists.          *)
(***************************************************************************)
C4_AsStated ==
    /\ StoreCall => LAST_MDEV_UUID = Some(BlockIdentity(TheCall.io_data))
    /\ TypeInfoQuery /\ MdevRecordExists => MdevRecordApplied

(***************************************************************************)
(* C4, amended: ... whenever such a record exists and the record matched   *)
(* by the profile-type name, if there is one, was applied without failing  *)
(* (a failing profile record ends the call before the mdev lookup).        *)
(***************************************************************************)
C4_StoredIdentitySelectsMdevRecord ==
    /\ StoreCall => LAST_MDEV_UUID = Some(BlockIdentity(TheCall.io_data))
    /\ TypeInfoQuery /\ MdevRecordExists /\ ~ProfileRecordFails => MdevRecordApplied

\* identity A remembered, its record found under "deadbeef-..." and applied
\* on top of the profile record: the name reads "VM-A"
C4_Witness ==
    /\ TypeInfoQuery
    /\ TheCall.last = Some(UuidA)
    /\ TheCall.file = FileGood
    /\ ConfigOf(TheCall.io_data).vgpu_type = 5
    /\ TheResult.applied = << <<"profile", KeyProfile5>>, <<"mdev", KeyA>> >>
    /\ ConfigOf(TheResult.io_data).vgpu_name =
           Padded(<<86, 77, 45, 65>>, NVA081_VGPU_STRING_BUFFER_SIZE)
    /\ ConfigOf(TheResult.io_data).num_heads = 1

(***************************************************************************)
(* C5: LAST_MDEV_UUID holds at most one identity: a VM-start or            *)
(* create-device call overwrites whatever was remembered (A, then B: B     *)
(* only), and a type-info query consults the mdev table under the text of  *)
(* the identity remembered at that moment and under no other.              *)
(***************************************************************************)
C5_LastWriteWins ==
    /\ Len(LAST_MDEV_UUID) <= 1
    /\ StoreCall /\ IsSome(TheCall.last) =>
           LAST_MDEV_UUID = Some(BlockIdentity(TheCall.io_data))
    /\ TypeInfoQuery =>
           \A e \in SeqRange(TheResult.applied) :
               e[1] = "mdev" =>
                   /\ IsSome(TheCall.last)
                   /\ e[2] = IdentityText[Unwrap(TheCall.last)]

\* B stored while A was remembered: B only
C5_Witness ==
    /\ StoreCall
    /\ TheCall.last = Some(UuidA)
    /\ BlockIdentity(TheCall.io_data) = UuidB
    /\ LAST_MDEV_UUID = Some(UuidB)

(***************************************************************************)
(* C6: when override application fails while a type-info query is          *)
(* processed (a text value does not fit its field, or the override file    *)
(* cannot be read or parsed), the hook returns -1 instead of the           *)
(* original's non-negative return value.                                   *)
(***************************************************************************)
C6_OverrideFailureReturnsMinusOne ==
    TypeInfoQuery
    /\ (\/ TheCall.file.kind \in {"ReadError", "Malformed"}
        \/ TheCall.file.kind = "Parsed" /\ ProfileRecordFails
        \/ MdevRecordExists /\ TooLong(TheMdevRecord, ConfigOf(TheCall.io_data)))
    => TheResult.ret = -1 /\ TheCall.ret >= 0

\* the mdev record of B carries a 32-byte name for the 32-byte field
C6_Witness ==
    /\ TypeInfoQuery
    /\ TheCall.file = FileUpper
    /\ TheCall.last = Some(UuidB)
    /\ TheCall.ret = 1
    /\ TheResult.ret = -1

\* the table of the documentation, range by range
SpoofTable(d, s) ==
    IF d \in (\H1340..\H13bd) \cup (\H174d..\H179c) THEN <<\H13bd, \H1160>>
    ELSE IF d \in (\H13c0..\H1436) \cup (\H1617..\H1667) \cup (\H17c2..\H17fd)
         THEN <<\H13f2, s>>
    ELSE IF d \in {\H15f0, \H15f1} \cup (\H1b00..\H1d56) \cup (\H1725..\H172f)
         THEN <<\H1b38, s>>
    ELSE IF d \in {\H1d81, \H1dba} THEN <<\H1db6, s>>
    ELSE IF d \in (\H1e02..\H1ff9) \cup (\H2182..\H21d1) THEN <<\H1e30, \H12ba>>
    ELSE IF d \in \H2200..\H2600 THEN <<\H2230, s>>
    ELSE <<d, s>>

\* the actual ids a PCI-info block carries and the ids it comes back with
ActualIds(params) == <<Upper16(params.pci_device_id), Upper16(params.pci_sub_system_id)>>

(***************************************************************************)
(* C7: for every 16-bit actual device id d and subsystem id s the PCI      *)
(* spoof returns (0x13bd, 0x1160) for d in 0x1340..0x13bd or               *)
(* 0x174d..0x179c; (0x13f2, s) for d in 0x13c0..0x1436, 0x1617..0x1667 or  *)
(* 0x17c2..0x17fd; (0x1b38, s) for d in {0x15f0, 0x15f1}, 0x1b00..0x1d56   *)
(* or 0x1725..0x172f; (0x1db6, s) for d in {0x1d81, 0x1dba};               *)
(* (0x1e30, 0x12ba) for d in 0x1e02..0x1ff9 or 0x2182..0x21d1; (0x2230, s) *)
(* for d in 0x2200..0x2600; and (d, s) for every other d.                  *)
(***************************************************************************)
C7_PciSpoofTable ==
    Returned /\ TheCall.io_data.cmd = NV2080_CTRL_CMD_BUS_GET_PCI_INFO
             /\ TheCall.io_data.params_size = 16
             /\ CONFIG.unlock /\ Dispatched =>
        LET actual == ActualIds(TheCall.io_data.params)
        IN  ActualIds(TheResult.io_data.params) = SpoofTable(actual[1], actual[2])

\* 0x1e50 comes back as 0x1e30 with the subsystem id forced to 0x12ba
C7_Witness ==
    /\ Returned
    /\ TheCall.io_data.cmd = NV2080_CTRL_CMD_BUS_GET_PCI_INFO
    /\ ActualIds(TheCall.io_data.params) = <<\H1e50, \Hfedc>>
    /\ ActualIds(TheResult.io_data.params) = <<\H1e30, \H12ba>>

\* the parameter block a pre-pass patch leaves when it is applied
Patched(io_data) ==
    CASE io_data.cmd = NV2080_CTRL_CMD_BUS_GET_PCI_INFO ->
            LET actual == ActualIds(io_data.params)
                spoofed == SpoofTable(actual[1], actual[2])
            IN  [io_data.params EXCEPT
                    !.pci_device_id = <<spoofed[1], Lower16(@)>>,
                    !.pci_sub_system_id = <<spoofed[2], Lower16(@)>>]
      [] io_data.cmd = NV0080_CTRL_CMD_GPU_GET_VIRTUALIZATION_MODE ->
            [io_data.params EXCEPT !.virtualization_mode = 3]
      [] io_data.cmd = NVA081_CTRL_CMD_VGPU_CONFIG_GET_MIGRATION_CAP ->
            [io_data.params EXCEPT !.migration_cap = 1]

UnlockCmds ==
    {NV2080_CTRL_CMD_BUS_GET_PCI_INFO, NV0080_CTRL_CMD_GPU_GET_VIRTUALIZATION_MODE}

(***************************************************************************)
(* C8: for a dispatched call each pre-pass patch is applied exactly when   *)
(* its command matches, the declared parameter size equals the layout size *)
(* and its enable flag is set, whatever the envelope status: PCI-info is   *)
(* spoofed and the virtualization mode set to 3 iff unlock is true         *)
(* (default true); the migration capability is set to 1 iff                *)
(* unlock_migration is true (default false); otherwise the parameter       *)
(* block is unchanged.                                                     *)
(***************************************************************************)
C8_PrePassGating ==
    /\ "unlock" \notin DOMAIN configToml => CONFIG.unlock = TRUE
    /\ "unlock_migration" \notin DOMAIN configToml => CONFIG.unlock_migration = FALSE
    /\ "unlock" \in DOMAIN configToml => CONFIG.unlock = configToml.unlock
    /\ "unlock_migration" \in DOMAIN configToml =>
           CONFIG.unlock_migration = configToml.unlock_migration
    /\ Dispatched /\ TheCall.io_data.cmd \in UnlockCmds =>
           TheResult.io_data.params =
               IF SizeAccepted /\ CONFIG.unlock
               THEN Patched(TheCall.io_data) ELSE TheCall.io_data.params
    /\ Dispatched
       /\ TheCall.io_data.cmd = NVA081_CTRL_CMD_VGPU_CONFIG_GET_MIGRATION_CAP =>
           TheResult.io_data.params =
               IF SizeAccepted /\ CONFIG.unlock_migration
               THEN Patched(TheCall.io_data) ELSE TheCall.io_data.params

\* the migration capability switched on in a call whose status is an error
C8_Witness ==
    /\ Dispatched
    /\ TheCall.io_data.cmd = NVA081_CTRL_CMD_VGPU_CONFIG_GET_MIGRATION_CAP
    /\ TheCall.io_data.status = NV_ERR_NOT_SUPPORTED
    /\ "unlock_migration" \in DOMAIN configToml
    /\ TheCall.io_data.params.migration_cap = 0
    /\ TheResult.io_data.params.migration_cap = 1

RecognisedCmds ==
    UnlockCmds \cup {NVA081_CTRL_CMD_VGPU_CONFIG_GET_MIGRATION_CAP}
    \cup StoreCmds \cup TypeInfoCmds

(***************************************************************************)
(* C9: for every recognised command (PCI-info, virtualization-mode,        *)
(* migration-capability, VM-start, create-device, both type-info queries)  *)
(* whose declared parameter size matches no accepted layout size, the hook *)
(* leaves the parameter block and LAST_MDEV_UUID unchanged and returns     *)
(* the original's return value.                                            *)
(***************************************************************************)
C9_SizeMismatchSkipsBranch ==
    Dispatched /\ TheCall.io_data.cmd \in RecognisedCmds /\ ~SizeAccepted =>
        /\ TheResult.io_data.params = TheCall.io_data.params
        /\ LAST_MDEV_UUID = TheCall.last
        /\ TheResult.ret = TheCall.ret
        /\ TheResult.applied = <<>>

\* a VM-start block eight bytes too large, status OK: nothing remembered
C9_Witness ==
    /\ Dispatched
    /\ TheCall.io_data.cmd = NV0000_CTRL_CMD_VGPU_GET_START_DATA
    /\ TheCall.io_data.params_size = \H420 + 8
    /\ TheCall.io_data.status = NV_OK
    /\ TheCall.last = None
    /\ LAST_MDEV_UUID = None
    /\ TheResult.ret = TheCall.ret

(***************************************************************************)
(* C10: when the envelope status is not OK the post-pass does nothing: a   *)
(* VM-start or create-device call does not change LAST_MDEV_UUID, and a    *)
(* type-info query applies no override, reads no override file and never   *)
(* makes the hook return -1.                                               *)
(***************************************************************************)
C10_PostPassOnlyWhenOk ==
    Dispatched /\ TheCall.io_data.status # NV_OK =>
        /\ TheCall.io_data.cmd \in StoreCmds => LAST_MDEV_UUID = TheCall.last
        /\ TheCall.io_data.cmd \in TypeInfoCmds =>
               /\ TheResult.applied = <<>>
               /\ TheResult.io_data.params = TheCall.io_data.params
               /\ <<"read_file">> \notin SeqRange(TheResult.trace)
               /\ TheResult.ret # -1
               /\ TheResult.ret = TheCall.ret

\* a type-info query of accepted size and error status over an unreadable
\* override file comes back with the original's return value
C10_Witness ==
    /\ Dispatched
    /\ TheCall.io_data.cmd = NVA081_CTRL_CMD_VGPU_CONFIG_GET_VGPU_TYPE_INFO
    /\ SizeAccepted
    /\ TheCall.io_data.status = NV_ERR_NOT_SUPPORTED
    /\ TheCall.file = FileReadError
    /\ TheCall.last = Some(UuidA)
    /\ TheResult.ret = 1

\* the two commands whose failure is hidden from nvidia-vgpu-mgr
LaunderedCmds == {<<\Ha082, \H0104>>, <<\H9096, \H0103>>}

(***************************************************************************)
(* C11: for every dispatched call whose command is 0xa0820104 or           *)
(* NV9096_CTRL_CMD_GET_ZBC_CLEAR_TABLE (0x90960103) and whose status is    *)
(* not OK, the envelope status is OK when the hook returns.                *)
(***************************************************************************)
C11_TwoCommandsForcedOk ==
    Dispatched /\ TheCall.io_data.cmd \in LaunderedCmds /\ TheCall.io_data.status # 0 =>
        TheResult.io_data.status = 0

\* 0xa0820104 fails with "not supported" and comes back OK
C11_Witness ==
    /\ Dispatched
    /\ TheCall.io_data.cmd = <<\Ha082, \H0104>>
    /\ TheCall.io_data.status = \H56
    /\ TheResult.io_data.status = 0

(***************************************************************************)
(* C12: for every dispatched call with command                             *)
(* NV2080_CTRL_CMD_GPU_GET_INFOROM_OBJECT_VERSION (0x2080014b) and status  *)
(* NV_ERR_NOT_SUPPORTED (0x56), the envelope status is                     *)
(* NV_ERR_OBJECT_NOT_FOUND (0x57) when the hook returns, and the return    *)
(* value is the original's.                                                *)
(***************************************************************************)
C12_InforomNotSupportedRemapped ==
    Dispatched /\ TheCall.io_data.cmd = <<\H2080, \H014b>>
               /\ TheCall.io_data.status = \H56 =>
        /\ TheResult.io_data.status = \H57
        /\ TheResult.ret = TheCall.ret

C12_Witness ==
    /\ Dispatched
    /\ TheCall.io_data.cmd = <<\H2080, \H014b>>
    /\ TheCall.io_data.status = \H56
    /\ TheCall.ret = 1
    /\ TheResult.io_data.status = \H57
    /\ TheResult.ret = 1

(***************************************************************************)
(* C13: for every dispatched call whose status is not OK and which is      *)
(* neither command 0xa0820104, nor command 0x90960103, nor command         *)
(* 0x2080014b with status not-supported, the envelope status on return     *)
(* equals the status the original call wrote.                              *)
(***************************************************************************)
C13_OtherStatusesKept ==
    Dispatched /\ TheCall.io_data.status # 0
               /\ TheCall.io_data.cmd \notin LaunderedCmds
               /\ ~(TheCall.io_data.cmd = <<\H2080, \H014b>>
                    /\ TheCall.io_data.status = \H56) =>
        TheResult.io_data.status = TheCall.io_data.status

\* a type-info query that is not supported comes back not supported
C13_Witness ==
    /\ Dispatched
    /\ TheCall.io_data.cmd = NVA081_CTRL_CMD_VGPU_CONFIG_GET_VGPU_TYPE_INFO
    /\ TheCall.io_data.status = \H56
    /\ TheResult.io_data.status = \H56
    /\ <<"error", "cmd failed">> \in SeqRange(TheResult.trace)

\* the engine on its own: the buffer and the record handed to
\* apply_profile_override, and what the first and the second call returned
Applied == call # None /\ call[1].class = "all"
TheBuffer == call[1].config
TheRecord == call[1].config_override
FirstOutcome == result[1]
SecondOutcome == result[2]

\* the line "Patching <type>/<field>: .." was logged for the field
Patched1(target) == <<"patch", target>> \in SeqRange(FirstOutcome.log)

\* the boolean-like fields: <<field of the record, field of the buffer>>
BoolFields ==
    { <<"cuda_enabled", "cuda_enabled">>, <<"ecc_supported", "ecc_supported">>,
      <<"multi_vgpu_supported", "multi_vgpu_supported">>,
      <<"frl_enabled", "frl_enable">> }

(***************************************************************************)
(* C14: for each boolean-like field (cuda_enabled, ecc_supported,          *)
(* multi_vgpu_supported, frl_enable), an override with any unsigned 32-bit *)
(* value v stores 0 when v = 0 and 1 when v >= 1, and never fails.         *)
(***************************************************************************)
C14_BoolOverridesClamp ==
    Applied =>
        \A f \in BoolFields :
            f[1] \in DOMAIN TheRecord =>
                /\ <<"too_long", f[2]>> \notin SeqRange(FirstOutcome.log)
                /\ DOMAIN TheRecord \subseteq {g[1] : g \in BoolFields} =>
                       FirstOutcome.ok /\ Patched1(f[2])
                /\ Patched1(f[2]) =>
                       FirstOutcome.config[f[2]] = IF TheRecord[f[1]] = 0 THEN 0 ELSE 1

\* cuda_enabled = 5 over a buffer that holds 0 leaves 1
C14_Witness ==
    /\ Applied
    /\ DOMAIN TheRecord = {"cuda_enabled"}
    /\ TheRecord.cuda_enabled = 5
    /\ TheBuffer.cuda_enabled = 0
    /\ FirstOutcome.ok
    /\ FirstOutcome.config.cuda_enabled = 1

\* the line "Failed to override <type>/<field> .. as it is too long." was
\* logged for the field
Refused1(target) == <<"too_long", target>> \in SeqRange(FirstOutcome.log)

\* the narrow text fields:
\* <<field of the record, field of the buffer, capacity in bytes>>
NarrowTextFields ==
    { <<"card_name", "vgpu_name", 32>>, <<"vgpu_type", "vgpu_class", 32>>,
      <<"features", "license", 128>>, <<"adapter_name", "adapter_name", 64>>,
      <<"short_gpu_name", "short_gpu_name_string", 64>>,
      <<"license_type", "licensed_product_name", 128>> }

\* the length in bytes of the UTF-8 form of a text
ByteLength(text) ==
    Len(text) + Cardinality({k \in 1..Len(text) : text[k] >= 128})
              + Cardinality({k \in 1..Len(text) : text[k] >= 2048})
              + Cardinality({k \in 1..Len(text) : text[k] >= 65536})

\* the text override of field f was tried
TextTried(f) ==
    Applied /\ f[1] \in DOMAIN TheRecord /\ (Patched1(f[2]) \/ Refused1(f[2]))

(***************************************************************************)
(* C15: for every narrow text field of capacity C (32, 64 or 128 bytes), a *)
(* text override of byte length L succeeds iff L <= C - 1; on success the  *)
(* field holds the value's bytes at offsets 0..L-1 and zero at every       *)
(* offset L..C-1 whatever it held before, and the NUL-terminated reader    *)
(* (from_c_str) returns exactly the supplied string.                       *)
(***************************************************************************)
C15_NarrowTextAsStated ==
    \A f \in NarrowTextFields :
        TextTried(f) =>
            /\ Patched1(f[2]) <=> ByteLength(TheRecord[f[1]]) <= f[3] - 1
            /\ Patched1(f[2]) =>
                   /\ Len(FirstOutcome.config[f[2]]) = f[3]
                   /\ \A k \in 1..f[3] :
                          FirstOutcome.config[f[2]][k] =
                              IF k <= ByteLength(TheRecord[f[1]])
                              THEN as_bytes(TheRecord[f[1]])[k] ELSE 0
                   /\ from_c_str(FirstOutcome.config[f[2]]) = TheRecord[f[1]]

\* C15 as it holds: the reader returns the supplied string up to its first
\* U+0000, which is the whole of it when it holds none
C15_NarrowTextUpToNul ==
    \A f \in NarrowTextFields :
        TextTried(f) =>
            /\ Patched1(f[2]) <=> ByteLength(TheRecord[f[1]]) <= f[3] - 1
            /\ Patched1(f[2]) =>
                   /\ Len(FirstOutcome.config[f[2]]) = f[3]
                   /\ \A k \in 1..f[3] :
                          FirstOutcome.config[f[2]][k] =
                              IF k <= ByteLength(TheRecord[f[1]])
                              THEN as_bytes(TheRecord[f[1]])[k] ELSE 0
                   /\ from_c_str(FirstOutcome.config[f[2]]) =
                          UntilZero(TheRecord[f[1]])
                   /\ (\A k \in 1..Len(TheRecord[f[1]]) : TheRecord[f[1]][k] # 0)
                          => from_c_str(FirstOutcome.config[f[2]]) = TheRecord[f[1]]

\* a short_gpu_name of 63 bytes, its first scalar two bytes long, written
\* over a field that held no zero at all
C15_Witness ==
    /\ Applied
    /\ DOMAIN TheRecord = {"short_gpu_name"}
    /\ ByteLength(TheRecord.short_gpu_name) = 63
    /\ TheRecord.short_gpu_name[1] = 233
    /\ \A k \in 1..64 : TheBuffer.short_gpu_name_string[k] # 0
    /\ FirstOutcome.ok
    /\ FirstOutcome.config.short_gpu_name_string[64] = 0
    /\ from_c_str(FirstOutcome.config.short_gpu_name_string) = TheRecord.short_gpu_name

\* what a field of the buffer holds once the override value of its class
\* is written to it
OverrideValue(class, value, target) ==
    CASE class = "copy" -> value
      [] class = "bool" -> IF value = 0 THEN 0 ELSE 1
      [] class = "str" -> Padded(as_bytes(value), Len(TheBuffer[target]))
      [] class = "wide_str" -> Padded(encode_utf16(value), Len(TheBuffer[target]))

\* the place in the declared field order where the first application stopped
FailedAt(k) == Refused1(FieldTable[k][3])

(***************************************************************************)
(* C16: when one application of an override record fails on a text field   *)
(* that is too long, every field that precedes the failing one in the      *)
(* declared field order holds its override value, while the failing field  *)
(* and every field after it in that order hold the values they had before  *)
(* the application; nothing is rolled back.                                *)
(***************************************************************************)
C16_FailureKeepsEarlierFields ==
    (Applied /\ ~FirstOutcome.ok) =>
        \E k \in 1..Len(FieldTable) :
            /\ FailedAt(k)
            /\ FieldTable[k][1] = "str"
            /\ \A j \in 1..(k - 1) :
                   FirstOutcome.config[FieldTable[j][3]] =
                       IF FieldTable[j][2] \in DOMAIN TheRecord
                       THEN OverrideValue(FieldTable[j][1],
                                TheRecord[FieldTable[j][2]], FieldTable[j][3])
                       ELSE TheBuffer[FieldTable[j][3]]
            /\ \A j \in k..Len(FieldTable) :
                   FirstOutcome.config[FieldTable[j][3]] =
                       TheBuffer[FieldTable[j][3]]

\* gpu_type, cuda_enabled, framebuffer and frl_enabled are written, the
\* adapter_name of 64 bytes is refused, and the two texts after it are not
\* written
C16_Witness ==
    /\ Applied
    /\ TheRecord = LateFailureRecord
    /\ TheBuffer.vgpu_type = 5
    /\ ~FirstOutcome.ok
    /\ Refused1("adapter_name")
    /\ FirstOutcome.config.vgpu_type = 11
    /\ FirstOutcome.config.cuda_enabled = 1 /\ TheBuffer.cuda_enabled = 0
    /\ FirstOutcome.config.fb_length = 4096
    /\ FirstOutcome.config.adapter_name = TheBuffer.adapter_name
    /\ FirstOutcome.config.short_gpu_name_string = TheBuffer.short_gpu_name_string
    /\ FirstOutcome.config.short_gpu_name_string # Padded(<<115>>, 64)
    /\ FirstOutcome.config.licensed_product_name = TheBuffer.licensed_product_name

\* the record was applied a second time, to the buffer the first
\* application left
AppliedTwice == Applied /\ Len(result) = 2

(***************************************************************************)
(* C17: for every override record R and every configuration buffer B,      *)
(* applying R to B twice in succession leaves B byte-identical to applying *)
(* R once, and the second application returns the same success or failure  *)
(* as the first.                                                           *)
(***************************************************************************)
C17_ApplyingTwiceIsApplyingOnce ==
    AppliedTwice =>
        /\ SecondOutcome.config = FirstOutcome.config
        /\ SecondOutcome.ok = FirstOutcome.ok

\* a record that changes the buffer and fails half way, applied twice
C17_Witness ==
    /\ AppliedTwice
    /\ TheRecord = LateFailureRecord
    /\ FirstOutcome.config # TheBuffer
    /\ ~FirstOutcome.ok
    /\ ~SecondOutcome.ok
    /\ SecondOutcome.config.fb_length = 4096

\* the length in 16-bit units of the UTF-16 form of a text
UnitLength(text) ==
    Len(text) + Cardinality({k \in 1..Len(text) : text[k] >= 65536})

\* the wide_str class was tried for an adapter_name override, by the whole
\* engine or on its own
WideTried ==
    /\ call # None
    /\ "adapter_name" \in DOMAIN TheRecord
    /\ Patched1("adapter_name_unicode") \/ Refused1("adapter_name_unicode")

(***************************************************************************)
(* C18: for every adapter_name override whose UTF-16 encoding has at most  *)
(* 63 code units, writing it into the 64-unit adapter_name_unicode field   *)
(* and decoding the field with the wide-text reader (WideCharFormat)       *)
(* yields the original string exactly, whatever the field contained        *)
(* before.                                                                 *)
(***************************************************************************)
C18_WideTextAsStated ==
    (WideTried /\ UnitLength(TheRecord.adapter_name) <= 63) =>
        /\ Patched1("adapter_name_unicode")
        /\ WideCharFormat(FirstOutcome.config.adapter_name_unicode) =
               TheRecord.adapter_name

\* C18 as it holds: the wide-text reader yields the adapter_name override up
\* to its first U+0000, which is the whole of it when it holds none
C18_WideTextUpToNul ==
    (WideTried /\ UnitLength(TheRecord.adapter_name) <= 63) =>
        /\ Patched1("adapter_name_unicode")
        /\ WideCharFormat(FirstOutcome.config.adapter_name_unicode) =
               UntilZero(TheRecord.adapter_name)
        /\ (\A k \in 1..Len(TheRecord.adapter_name) : TheRecord.adapter_name[k] # 0)
               => WideCharFormat(FirstOutcome.config.adapter_name_unicode) =
                      TheRecord.adapter_name

\* 31 surrogate pairs and one more unit, 63 units in all, written over a
\* field that held a longer text than the field's terminator leaves room for
C18_Witness ==
    /\ WideTried
    /\ UnitLength(TheRecord.adapter_name) = 63
    /\ Len(TheRecord.adapter_name) = 32
    /\ TheBuffer.adapter_name_unicode[1] # 0
    /\ FirstOutcome.ok
    /\ FirstOutcome.config.adapter_name_unicode[64] = 0
    /\ WideCharFormat(FirstOutcome.config.adapter_name_unicode) = TheRecord.adapter_name

\* a type-info query over an override file that was read and parsed
ParsedTypeInfoQuery == TypeInfoQuery /\ TheCall.file.kind = "Parsed"

\* the name of the query's type, "nvidia-<vgpu type>", and the record the
\* profile table holds under it
TheProfileKey == ProfileKeyText[ConfigOf(TheCall.io_data).vgpu_type]
ProfileRecordExists == TheProfileKey \in DOMAIN TheCall.file.profile
TheProfileRecord == TheCall.file.profile[TheProfileKey]

\* the returned buffer holds the record's value in each of the named fields
HoldsValuesOn(record, sources) ==
    \A k \in 1..Len(FieldTable) :
        FieldTable[k][2] \in sources =>
            ConfigOf(TheResult.io_data)[FieldTable[k][3]] =
                CASE FieldTable[k][1] = "copy" -> record[FieldTable[k][2]]
                  [] FieldTable[k][1] = "bool" ->
                        IF record[FieldTable[k][2]] = 0 THEN 0 ELSE 1
                  [] FieldTable[k][1] = "str" ->
                        Padded(as_bytes(record[FieldTable[k][2]]),
                               Len(ConfigOf(TheCall.io_data)[FieldTable[k][3]]))
                  [] FieldTable[k][1] = "wide_str" ->
                        Padded(encode_utf16(record[FieldTable[k][2]]),
                               Len(ConfigOf(TheCall.io_data)[FieldTable[k][3]]))

\* the returned buffer holds in each of the named fields what the caller's
\* buffer held
KeepsValuesOn(sources) ==
    \A k \in 1..Len(FieldTable) :
        FieldTable[k][2] \in sources =>
            ConfigOf(TheResult.io_data)[FieldTable[k][3]] =
                ConfigOf(TheCall.io_data)[FieldTable[k][3]]

(***************************************************************************)
(* C19: during one type-info query, the record matched by profile-type     *)
(* name ("nvidia-<vgpu type>") is applied before the record matched by the *)
(* remembered mdev identity, so that for every field set by both records   *)
(* the buffer ends with the mdev record's value; if the profile record     *)
(* fails, the mdev record is not applied at all.                           *)
(***************************************************************************)
C19_ProfileRecordThenMdevRecord ==
    ParsedTypeInfoQuery =>
        /\ (ProfileRecordExists /\ MdevRecordExists /\ ~ProfileRecordFails) =>
               /\ TheResult.applied =
                      << <<"profile", TheProfileKey>>,
                         <<"mdev", IdentityText[Unwrap(TheCall.last)]>> >>
               /\ ~TooLong(TheMdevRecord, ConfigOf(TheCall.io_data)) =>
                      /\ HoldsValuesOn(TheMdevRecord, DOMAIN TheMdevRecord)
                      /\ HoldsValuesOn(TheProfileRecord,
                             DOMAIN TheProfileRecord \ DOMAIN TheMdevRecord)
        /\ ProfileRecordFails =>
               /\ TheResult.applied = << <<"profile", TheProfileKey>> >>
               /\ TheResult.ret = -1
               /\ MdevRecordExists =>
                      KeepsValuesOn(DOMAIN TheMdevRecord \ DOMAIN TheProfileRecord)

\* type 5 with identity A remembered: card_name is set by both records and
\* reads "VM-A"; gpu_type and max_pixels are the profile record's,
\* framebuffer the mdev record's
C19_Witness ==
    /\ ParsedTypeInfoQuery
    /\ ProfileRecordExists /\ MdevRecordExists
    /\ TheProfileRecord = ProfileRecord /\ TheMdevRecord = MdevRecordA
    /\ TheResult.ret = TheCall.ret
    /\ ConfigOf(TheCall.io_data).vgpu_name # ConfigOf(TheResult.io_data).vgpu_name
    /\ ConfigOf(TheResult.io_data).vgpu_name =
           Padded(<<86, 77, 45, 65>>, NVA081_VGPU_STRING_BUFFER_SIZE)
    /\ ConfigOf(TheResult.io_data).vgpu_type = 7
    /\ ConfigOf(TheResult.io_data).max_pixels = 100
    /\ ConfigOf(TheResult.io_data).fb_length = 2048

(***************************************************************************)
(* C20: when the profile-override file does not exist, a type-info query   *)
(* is processed as though no override were configured: the configuration   *)
(* buffer is unchanged and the hook returns the original's return value,   *)
(* never -1; any other read error makes the hook return -1.                *)
(***************************************************************************)
C20_MissingFileIsNoOverride ==
    TypeInfoQuery =>
        /\ TheCall.file.kind = "NotFound" =>
               /\ TheResult.io_data = TheCall.io_data
               /\ TheResult.ret = TheCall.ret
               /\ TheResult.ret # -1
               /\ ~OverrideFailed
        /\ TheCall.file.kind = "ReadError" =>
               /\ TheResult.ret = -1
               /\ OverrideFailed

\* no file, an identity remembered, the original returned 1: the hook
\* returns 1 and the buffer is as the driver filled it
C20_Witness ==
    /\ TypeInfoQuery
    /\ TheCall.file.kind = "NotFound"
    /\ TheCall.last = Some(UuidA)
    /\ TheCall.ret = 1
    /\ TheResult.ret = 1
    /\ ConfigOf(TheResult.io_data) = ConfigOf(TheCall.io_data)
    /\ <<"error", "not found">> \in SeqRange(TheResult.trace)

\* two invocations were made in a row; the earlier of the two
TwoInARow == Len(call) = 2
PreviousCall == call[2]
PreviousResult == result[2]

\* the earlier invocation was a type-info query that found the file
\* malformed
PreviousQueryMalformed ==
    /\ TwoInARow
    /\ PreviousCall.io_data.cmd \in TypeInfoCmds
    /\ PreviousCall.file.kind = "Malformed"

\* the records the file of the latest query holds for it, in the order they
\* are applied
ExpectedApplied ==
    (IF ProfileRecordExists THEN << <<"profile", TheProfileKey>> >> ELSE <<>>)
    \o (IF MdevRecordExists /\ ~(ProfileRecordExists /\ ProfileRecordFails)
        THEN << <<"mdev", IdentityText[Unwrap(TheCall.last)]>> >> ELSE <<>>)

\* the latest query came out as the file it found says
DecidedByFile ==
    CASE TheCall.file.kind = "NotFound" ->
            TheResult.io_data = TheCall.io_data /\ TheResult.ret = TheCall.ret
      [] TheCall.file.kind \in {"ReadError", "Malformed"} ->
            TheResult.io_data = TheCall.io_data /\ TheResult.ret = -1
      [] TheCall.file.kind = "Parsed" ->
            /\ TheResult.applied = ExpectedApplied
            /\ IF \E k \in 1..Len(ExpectedApplied) :
                      TooLong(TheCall.file[ExpectedApplied[k][1]][ExpectedApplied[k][2]],
                              ConfigOf(TheCall.io_data))
               THEN TheResult.ret = -1
               ELSE /\ TheResult.ret = TheCall.ret
                    /\ MdevRecordExists =>
                           HoldsValuesOn(TheMdevRecord, DOMAIN TheMdevRecord)
                    /\ ProfileRecordExists =>
                           HoldsValuesOn(TheProfileRecord,
                               DOMAIN TheProfileRecord \
                                   (IF MdevRecordExists THEN DOMAIN TheMdevRecord ELSE {}))
                    /\ ExpectedApplied = <<>> => TheResult.io_data = TheCall.io_data

(***************************************************************************)
(* C21: the override file is read and parsed afresh on each accepted       *)
(* type-info query: a malformed file makes that query return -1 with the   *)
(* configuration buffer unmodified, and a later query issued after the     *)
(* file has been corrected (or changed) is decided by the file contents at *)
(* the time of that later query, with no state carried over from the       *)
(* failed one.                                                             *)
(***************************************************************************)
C21_FileReadAfreshOnEachQuery ==
    /\ (TypeInfoQuery /\ TheCall.file.kind = "Malformed") =>
           /\ TheResult.ret = -1
           /\ TheResult.io_data = TheCall.io_data
           /\ LAST_MDEV_UUID = TheCall.last
    /\ TypeInfoQuery =>
           /\ Count(TheResult.trace, <<"read_file">>) = 1
           /\ TheCall.file.kind \in {"Malformed", "Parsed"} =>
                  Count(TheResult.trace, <<"parse">>) = 1
    /\ (PreviousQueryMalformed /\ TypeInfoQuery) =>
           /\ PreviousResult.ret = -1
           /\ TheCall.last = PreviousCall.last
           /\ TheCall.file = overrideFile
           /\ DecidedByFile

\* identity A is remembered; a query for type 5 finds the file malformed and
\* returns -1; the file is repaired; the same query again returns the
\* original's value with the profile record and A's record applied
C21_Witness ==
    /\ PreviousQueryMalformed
    /\ PreviousResult.ret = -1
    /\ TypeInfoQuery
    /\ TheCall.io_data = PreviousCall.io_data
    /\ TheCall.file = FileGood
    /\ TheCall.last = Some(UuidA)
    /\ TheCall.ret = 1
    /\ TheResult.ret = 1
    /\ TheResult.applied = << <<"profile", KeyProfile5>>, <<"mdev", KeyA>> >>
    /\ ConfigOf(TheResult.io_data).num_heads = 1

\* a segment of the remembered identity other than the last holds a
\* non-zero bit: the 32-bit first group, one of the 16-bit groups or one of
\* the first two bytes of the final eight
HeadSegmentNonZero ==
    \/ TheCall.last[1][1] # <<0, 0>>
    \/ TheCall.last[1][2] # 0
    \/ TheCall.last[1][3] # 0
    \/ TheCall.last[1][4][1] # 0
    \/ TheCall.last[1][4][2] # 0

\* the match by VM id was made
VmMatched == \E k \in 1..Len(TheResult.applied) : TheResult.applied[k][1] = "vm"

MiddleSegmentNonZero ==
    \/ TheCall.last[1][2] # 0
    \/ TheCall.last[1][3] # 0
    \/ TheCall.last[1][4][1] # 0
    \/ TheCall.last[1][4][2] # 0

\* the last six bytes, written in hex, read as a decimal number
LastSegmentDecimal ==
    \A k \in 1..12 : IsDecimalDigit(LastSegmentText(TheCall.last[1])[k])

UnitMultiplier(unit) ==
    CASE unit \in {<<107, 66>>, <<75, 66>>} -> <<1000, 1>>
      [] unit = <<77, 66>> -> <<1000, 2>>
      [] unit = <<71, 66>> -> <<1000, 3>>
      [] unit = <<84, 66>> -> <<1000, 4>>
      [] unit = <<75, 105, 66>> -> <<1024, 1>>
      [] unit = <<77, 105, 66>> -> <<1024, 2>>
      [] unit = <<71, 105, 66>> -> <<1024, 3>>
      [] unit = <<84, 105, 66>> -> <<1024, 4>>

\* n times the multiplier of the unit
Product(digits, unit) ==
    BigMulPow(BigFromDecimal(digits), UnitMultiplier(unit)[1], UnitMultiplier(unit)[2])

(***************************************************************************)
(* C23: the human-readable number decoder maps, for every unsigned decimal *)
(* integer n, the text of n with optional surrounding spaces to n, and the *)
(* text of n followed by optional spaces and a unit to n times the unit's  *)
(* multiplier: 1000, 1000^2, 1000^3, 1000^4 for kB/KB, MB, GB, TB and      *)
(* 1024, 1024^2, 1024^3, 1024^4 for KiB, MiB, GiB, TiB; an empty string or *)
(* an unknown unit is an error.                                            *)
(***************************************************************************)
C23_HumanNumberDecoded ==
    Returned =>
        /\ TheCall.digits = <<>> /\ TheCall.unit = <<>> => ~TheResult.ok
        /\ TheCall.digits # <<>> /\ TheCall.unit = <<>> =>
               TheResult = HumanOk(BigFromDecimal(TheCall.digits))
        /\ TheCall.digits # <<>> /\ TheCall.unit \in KnownUnits =>
               TheResult = HumanOk(Product(TheCall.digits, TheCall.unit))
        /\ TheCall.digits # <<>> /\ TheCall.unit \in UnknownUnits => ~TheResult.ok

\* a dispatched 0xa0810103 query with status OK
A081QueryOk ==
    /\ Dispatched
    /\ TheCall.io_data.cmd = <<\Ha081, \H0103>>
    /\ TheCall.io_data.status = 0

\* the parameter block was handed to handle_profile_override, which starts
\* by reading the override file
HandedToOverride == <<"read_file">> \in SeqRange(TheResult.trace)

(***************************************************************************)
(* C24: a 0xa0810103 type-info query with status OK is reinterpreted and   *)
(* handed to override application iff its declared parameter size is       *)
(* 0x1360 (4960, the size of NvA081CtrlVgpuConfigGetVgpuTypeInfoParams,    *)
(* whose embedded NvA081CtrlVgpuInfo is 0x1358 bytes under C layout rules  *)
(* with 8-byte-aligned 64-bit fields), 5096 or 5232; for every other size  *)
(* the buffer is unchanged and the original's return value is returned.    *)
(***************************************************************************)
C24_TypeInfoQuerySizes ==
    /\ size_of(NvA081CtrlVgpuConfigGetVgpuTypeInfoParamsLayout, 1) = \H1360
    /\ size_of(NvA081CtrlVgpuConfigGetVgpuTypeInfoParamsLayout, 1) = 4960
    /\ size_of(NvA081CtrlVgpuInfoLayout, 1) = \H1358
    /\ A081QueryOk =>
           /\ HandedToOverride <=> TheCall.io_data.params_size \in {\H1360, 5096, 5232}
           /\ TheCall.io_data.params_size \notin {\H1360, 5096, 5232} =>
                  /\ TheResult.io_data = TheCall.io_data
                  /\ TheResult.ret = TheCall.ret
                  /\ TheResult.applied = <<>>

\* a query of 5096 bytes for type 5 over a file with a record for
\* "nvidia-5": the record is applied
C24_Witness ==
    /\ A081QueryOk
    /\ TheCall.io_data.params_size = 5096
    /\ TheCall.file = FileGood
    /\ TheCall.last = None
    /\ HandedToOverride
    /\ TheResult.applied = << <<"profile", KeyProfile5>> >>
    /\ TheResult.io_data.params.vgpu_type_info.vgpu_type = 7

\* the step is one invocation of the hook, from entry to return
Invocation == call = None /\ call' # None

(***************************************************************************)
(* C25: over any sequence of hook invocations made one after another in    *)
(* one process, the original ioctl address is resolved through dlsym only  *)
(* during the first invocation; every later invocation uses the cached     *)
(* address and forwards to the same target.  As a property of every step:  *)
(* an invocation calls dlsym iff no address is cached when it starts,      *)
(* which is the case up to the first invocation only, since every          *)
(* invocation leaves an address cached and a cached address never changes; *)
(* it forwards once, to the cached address.                                *)
(***************************************************************************)
C25_ResolvedOnceThenCached ==
    [][ /\ IOCTL_FN_PTR # None => IOCTL_FN_PTR' = IOCTL_FN_PTR
        /\ Invocation =>
               /\ IOCTL_FN_PTR' # None
               /\ call'[1].fn_ptr = IOCTL_FN_PTR
               /\ Count(result'[1].trace, <<"dlsym">>) =
                      IF IOCTL_FN_PTR = None THEN 1 ELSE 0
               /\ Count(result'[1].trace, <<"next_ioctl">>) = 1
      ]_vars

\* a later invocation: the address was cached when it started, dlsym was
\* not called, the call was forwarded and dispatched
C25_Witness ==
    /\ Dispatched
    /\ TheCall.fn_ptr = Some("next_ioctl")
    /\ IOCTL_FN_PTR = TheCall.fn_ptr
    /\ <<"dlsym">> \notin SeqRange(TheResult.trace)
    /\ TheResult.trace[1] = <<"next_ioctl">>
    /\ TheCall.last # None

\* thread t owns the mutex around LAST_MDEV_UUID
Holds(t) == result.owner = Some(t)

\* thread t is blocked in LAST_MDEV_UUID.lock()
Waits(t) == call[t].pc = "lock" /\ result.owner # None

\* the statements that read a file, parse, write a log or apply overrides
IoStatements == {"next_ioctl", "info", "read_to_string", "from_str", "apply"}

(***************************************************************************)
(* C26: under any interleaving of hook invocations on several threads, the *)
(* lock on LAST_MDEV_UUID is held only for one store or one read of the    *)
(* identity and is released before any file read, parse, log write or      *)
(* override application starts; no thread waits for the lock while the     *)
(* thread holding it performs I/O, and no interleaving deadlocks: while a  *)
(* thread is inside the hook, some thread inside the hook can take a step. *)
(***************************************************************************)
C26_LockHeldForOneAccessOnly ==
    /\ \A t \in Threads :
           Holds(t) =>
               /\ call[t].pc \in {"store", "clone", "unlock"}
               /\ call[t].pc = "unlock" =>
                      IF call[t].class = "store"
                      THEN LAST_MDEV_UUID = call[t].uuid
                      ELSE call[t].mdev_uuid = Some(LAST_MDEV_UUID)
    /\ \A t \in Threads : call[t].pc \in IoStatements => ~Holds(t)
    /\ \A t, u \in Threads :
           Waits(t) /\ Holds(u) => call[u].pc \notin IoStatements
    /\ (\E t \in Threads : call[t].pc # "idle") => ENABLED Progress

\* one thread holds the lock for its store while another, which has read
\* and parsed the file, waits for it
C26_Witness ==
    \E t, u \in Threads :
        /\ Holds(t)
        /\ call[t].pc = "store"
        /\ Waits(u)
        /\ call[u].class = "query"

\* the sizes of the layouts the dispatcher took a view of the parameter
\* block as, during the invocation that has just returned
ViewsTaken ==
    PrePassView(TheCall.io_data, CONFIG) \o PostPassView(TheCall.io_data)

\* the invocation read or wrote the parameter block through a typed view
BlockTouched ==
    \/ TheResult.io_data.params # TheCall.io_data.params
    \/ <<"info", "params">> \in SeqRange(TheResult.trace)

(***************************************************************************)
(* C27: every typed view the dispatcher takes of a parameter block covers  *)
(* at most the declared parameter size: for each recognised command, the   *)
(* size of the layout io_data.params is reinterpreted as is at most        *)
(* params_size whenever the reinterpretation happens; the block is read or *)
(* written through such a view only.                                       *)
(***************************************************************************)
C27_ViewsWithinParamsSize ==
    Dispatched =>
        /\ \A k \in 1..Len(ViewsTaken) :
               ViewsTaken[k] <= TheCall.io_data.params_size
        /\ BlockTouched => ViewsTaken # <<>>
        /\ TheResult.io_data.params_size = TheCall.io_data.params_size

\* a type-info query of the 17.0 driver: 5096 bytes declared, viewed and
\* overridden as the 0x1360-byte layout
C27_Witness ==
    /\ Dispatched
    /\ TheCall.io_data.cmd = NVA081_CTRL_CMD_VGPU_CONFIG_GET_VGPU_TYPE_INFO
    /\ TheCall.io_data.params_size = TYPE_INFO_SIZE_V17
    /\ ViewsTaken = <<size_of(NvA081CtrlVgpuConfigGetVgpuTypeInfoParamsLayout, 1)>>
    /\ ViewsTaken[1] < TheCall.io_data.params_size
    /\ TheResult.io_data.params # TheCall.io_data.params

\* a PCI-info call went through the spoof
PciSpoofed ==
    /\ Dispatched
    /\ TheCall.io_data.cmd = NV2080_CTRL_CMD_BUS_GET_PCI_INFO
    /\ CONFIG.unlock

(***************************************************************************)
(* C28: PCI spoofing changes only the upper 16 bits of pci_device_id and   *)
(* pci_sub_system_id: the lower 16 bits of both words, pci_revision_id and *)
(* pci_ext_device_id are after the hook returns what the original call     *)
(* wrote.                                                                  *)
(***************************************************************************)
C28_PciSpoofFrame ==
    PciSpoofed =>
        /\ Lower16(TheResult.io_data.params.pci_device_id)
               = Lower16(TheCall.io_data.params.pci_device_id)
        /\ Lower16(TheResult.io_data.params.pci_sub_system_id)
               = Lower16(TheCall.io_data.params.pci_sub_system_id)
        /\ TheResult.io_data.params.pci_revision_id
               = TheCall.io_data.params.pci_revision_id
        /\ TheResult.io_data.params.pci_ext_device_id
               = TheCall.io_data.params.pci_ext_device_id
        /\ DOMAIN TheResult.io_data.params = DOMAIN TheCall.io_data.params

\* a Turing id replaced, with both upper halves changed and the rest, all
\* non-zero and none the vendor id, kept
C28_Witness ==
    /\ PciSpoofed
    /\ TheCall.io_data.params =
           [pci_device_id |-> <<\H1e02, \Hffff>>,
            pci_sub_system_id |-> <<\Hfedc, \H8086>>,
            pci_revision_id |-> \Hff, pci_ext_device_id |-> \Hffff]
    /\ TheResult.io_data.params =
           [pci_device_id |-> <<\H1e30, \Hffff>>,
            pci_sub_system_id |-> <<\H12ba, \H8086>>,
            pci_revision_id |-> \Hff, pci_ext_device_id |-> \Hffff]

\* the block the hook returned went through the hook once more
SpoofedAgain ==
    /\ Len(call) = 2
    /\ PciSpoofed
    /\ call[2].io_data.cmd = NV2080_CTRL_CMD_BUS_GET_PCI_INFO
    /\ call[1].io_data = result[2].io_data

(***************************************************************************)
(* C29: the PCI spoof is idempotent: for every device id d and subsystem   *)
(* id s, spoofing the spoofed pair again returns the same pair, so each    *)
(* replacement device id lies in the range that produces it or outside     *)
(* every range.                                                            *)
(***************************************************************************)
C29_PciSpoofIdempotent ==
    SpoofedAgain =>
        /\ ActualIds(result[1].io_data.params) = ActualIds(result[2].io_data.params)
        /\ result[1].io_data = result[2].io_data

\* TITAN V: replaced by 0x1db6, which no range holds, and kept the second
\* time
C29_Witness ==
    /\ SpoofedAgain
    /\ ActualIds(call[2].io_data.params) = <<\H1d81, \Hfedc>>
    /\ ActualIds(result[2].io_data.params) = <<\H1db6, \Hfedc>>
    /\ ActualIds(result[1].io_data.params) = <<\H1db6, \Hfedc>>
    /\ SpoofedIds(\H1db6, \Hfedc) = <<\H1db6, \Hfedc>>

\* the lines logged for the field by the k-th application of the record
PatchedIn(k, target) == <<"patch", target>> \in SeqRange(result[k].log)
RefusedIn(k, target) == <<"too_long", target>> \in SeqRange(result[k].log)

(***************************************************************************)
(* C30: within one application of an override record, the wide-string      *)
(* write of adapter_name into adapter_name_unicode never fails: it is      *)
(* reached only after the same value fitted the 64-byte adapter_name field *)
(* (at most 63 UTF-8 bytes), and a string has no more UTF-16 code units    *)
(* than UTF-8 bytes, so the wide too-long branch is not taken.             *)
(***************************************************************************)
C30_WideWriteNeverFails ==
    Applied =>
        /\ "adapter_name" \in DOMAIN TheRecord =>
               UnitLength(TheRecord.adapter_name) <= ByteLength(TheRecord.adapter_name)
        /\ \A k \in 1..Len(result) :
               /\ ~RefusedIn(k, "adapter_name_unicode")
               /\ PatchedIn(k, "adapter_name_unicode") =>
                      /\ PatchedIn(k, "adapter_name")
                      /\ ByteLength(TheRecord.adapter_name) <= 63
                      /\ Len(TheBuffer.adapter_name) = 64
                      /\ Len(TheBuffer.adapter_name_unicode) = 64

\* an adapter_name of 63 bytes and 62 units is written to both fields, the
\* first time and the second
C30_Witness ==
    /\ Applied
    /\ "adapter_name" \in DOMAIN TheRecord
    /\ ByteLength(TheRecord.adapter_name) = 63
    /\ UnitLength(TheRecord.adapter_name) = 62
    /\ Len(result) = 2
    /\ \A k \in 1..2 : /\ PatchedIn(k, "adapter_name")
                       /\ PatchedIn(k, "adapter_name_unicode")

=============================================================================
